---------------------------- MODULE Spec2Model ----------------------------
(***************************************************************************)
(* A model of the decoding and timing core of lap-tracker-pro:             *)
(*   - the binary (UBX) decoder, byte by byte, in both of its source       *)
(*     variants (speedBounds.ts lines 84..446 and ubxParser.ts);           *)
(*   - the row loop of the five decoders (binary, NMEA, VBO, Alfano, AiM); *)
(*   - calculateLaps / calculateOptimalLap of lapCalculation.ts;           *)
(*   - findSpeedEvents of speedEvents.ts and the format dispatcher;        *)
(*   - the data, selection and laps states of the Index page;              *)
(*   - the operations of trackStorage.ts on the cache and localStorage.    *)
(*                                                                         *)
(* Numbers.  The code computes in IEEE doubles; the model computes in      *)
(* integers and exact rationals.  Coordinates are integers in units of     *)
(* 1e-7 degree (the unit of the UBX position fields), times are integer    *)
(* milliseconds, speeds are integer mm/s.  Interpolated crossing times are *)
(* rationals <<num, den>> in lowest terms.                                 *)
(***************************************************************************)
EXTENDS Integers, Sequences, FiniteSets, TLC

VARIABLES
    data,       \* UBX: the byte buffer handed to parseUbxFile
    offset,     \* UBX: scan offset (offset in variant A, i in variant B), 0-based
    pc,         \* which decoder is running and where: see the actions
    samples,    \* the decoder's samples array
    base,       \* baseTimeMs / baseTime: [set |-> BOOLEAN, v |-> Int]
    result,     \* "none" while decoding, then "ok" (stream returned) or "error" (throw)
    accepted,   \* UBX ghost: <<offset, length>> of every frame whose checksum matched
    layout,     \* UBX ghost: the frames the buffer was built from
    corrupt,    \* UBX ghost: [frame |-> k, pos |-> payload offset] or [frame |-> 0]
    dec,        \* row decoders: rows read so far and the loop's other locals
    course,     \* lap engine: the course (start/finish line, sector lines)
    crossings,  \* lap engine: the accepted crossings of the three lines
    laps,       \* lap engine: the result of calculateLaps
    optimal,    \* lap engine: the result of calculateOptimalLap
    events,     \* speed events: the events array of findSpeedEvents
    evt,        \* speed events: options, smoothed series and the loop's locals
    disp,       \* dispatcher: the input, the sniffers evaluated, the decoder called
    page,       \* Index page: the data, selection and laps states
    store       \* track storage: the module's cache and the browser's localStorage

vars == <<data, offset, pc, samples, base, result, accepted, layout, corrupt,
          dec, course, crossings, laps, optimal, events, evt, disp, page, store>>

ubxVars == <<data, offset, accepted, layout, corrupt>>

lapVars == <<course, crossings, laps, optimal>>

postVars == <<events, evt, disp>>

appVars == <<page, store>>

(***************************************************************************)
(* Bounds of the model.                                                    *)
(***************************************************************************)
MaxFrames == 2

(***************************************************************************)
(* Arithmetic helpers.                                                     *)
(***************************************************************************)
Abs(x) == IF x < 0 THEN -x ELSE x

Max2(a, b) == IF a >= b THEN a ELSE b

Min2(a, b) == IF a <= b THEN a ELSE b

(***************************************************************************)
(* UBX protocol constants.                                                 *)
(***************************************************************************)
UBX_SYNC_1 == 181

UBX_SYNC_2 == 98

UBX_NAV_CLASS == 1

UBX_NAV_PVT == 7

NAV_PVT_LENGTH == 92

\* ubxParser.ts interprets a NAV-PVT frame whose length is at least this.
NAV_PVT_MIN_LENGTH_B == 84

MS_PER_DAY == 86400000

MS_PER_WEEK == 604800000

\* Speed sanity bound, 150 m/s, in mm/s.
MAX_SPEED_MMPS == 150000

\* 90 and 180 degrees in units of 1e-7 degree.
LAT_LIMIT == 900000000

LON_LIMIT == 1800000000

(***************************************************************************)
(* Little-endian field access, as DataView does it.  Byte(i) is data[i]    *)
(* of the code (0-based).                                                  *)
(***************************************************************************)
Byte(i) == data[i + 1]

GetUint16(i) == Byte(i) + 256 * Byte(i + 1)

GetInt32(i) ==
    Byte(i) + 256 * Byte(i + 1) + 65536 * Byte(i + 2)
    + 16777216 * (IF Byte(i + 3) >= 128 THEN Byte(i + 3) - 256 ELSE Byte(i + 3))

\* getUint32 for iTOW.  A time of week is below 604800000 < 2^31; the top bit
\* of the top byte is dropped so that the value stays a model integer.
GetUint32(i) ==
    Byte(i) + 256 * Byte(i + 1) + 65536 * Byte(i + 2) + 16777216 * (Byte(i + 3) % 128)

(***************************************************************************)
(* calculateChecksum: the running sum over `length` bytes from `start`:    *)
(*     ckA = (ckA + data[start + i]) & 0xFF;  ckB = (ckB + ckA) & 0xFF     *)
(* for i = 0 .. length-1, both starting at 0.  CkLoop runs the loop body   *)
(* over the bytes i .. j-1 in order; it splits the range in two so that    *)
(* the evaluation does not nest as deep as the buffer is long (the test on *)
(* `left`, always true, only makes the first half run before the second).  *)
(***************************************************************************)
CkStep(acc, b) ==
    LET a == (acc.ckA + b) % 256
    IN  [ckA |-> a, ckB |-> (acc.ckB + a) % 256]

RECURSIVE CkLoop(_, _, _)
CkLoop(i, j, acc) ==
    IF j <= i THEN acc
    ELSE IF j = i + 1 THEN CkStep(acc, Byte(i))
    ELSE LET m == (i + j) \div 2
             left == CkLoop(i, m, acc)
         IN  IF left.ckA >= 0 THEN CkLoop(m, j, left) ELSE acc

calculateChecksum(start, length) ==
    CkLoop(start, start + length, [ckA |-> 0, ckB |-> 0])

\* The comparison of the computed checksum with the two bytes after the payload
\* (speedBounds.ts line 156, ubxParser.ts line 133).
ChecksumMatchesNoCheck(off, length) == TRUE

ChecksumMatches(off, length) ==
    LET ck == calculateChecksum(off + 2, length + 4)
    IN  ck.ckA = Byte(off + 6 + length) /\ ck.ckB = Byte(off + 6 + length + 1)

(***************************************************************************)
(* haversineDistance, in whole metres.  The code's trigonometry is         *)
(* replaced by the equirectangular distance on integers: 1e-6 degree of    *)
(* latitude is 0.111195 m, a longitude difference is scaled by the cosine  *)
(* of the latitude (in thousandths, per 10-degree band).  Differences      *)
(* beyond 30 km return the larger component, which is already beyond every *)
(* threshold the decoders compare the distance with.                       *)
(***************************************************************************)
MetersOfMicroDeg(d) ==
    LET q == d \div 1000
        r == d % 1000
    IN  q * 111 + (q * 195) \div 1000 + (r * 111195) \div 1000000

CosMilli(latE7) ==
    LET band == Abs(latE7) \div 100000000
    IN  CASE band = 0 -> 1000
          [] band = 1 -> 985
          [] band = 2 -> 940
          [] band = 3 -> 866
          [] band = 4 -> 766
          [] band = 5 -> 643
          [] band = 6 -> 500
          [] band = 7 -> 342
          [] band = 8 -> 174
          [] OTHER    -> 0

RECURSIVE ISqrtIn(_, _, _)
ISqrtIn(n, lo, hi) ==
    \* the largest r in lo..hi with r*r <= n, given lo*lo <= n
    IF lo >= hi THEN lo
    ELSE LET mid == (lo + hi + 1) \div 2
         IN  IF mid * mid <= n THEN ISqrtIn(n, mid, hi) ELSE ISqrtIn(n, lo, mid - 1)

haversineDistance(lat1, lon1, lat2, lon2) ==
    LET dy == MetersOfMicroDeg(Abs(lat2 \div 10 - lat1 \div 10))
        dxRaw == MetersOfMicroDeg(Abs(lon2 \div 10 - lon1 \div 10))
        dx == (dxRaw \div 1000) * CosMilli(lat1) + ((dxRaw % 1000) * CosMilli(lat1)) \div 1000
    IN  IF dx > 30000 \/ dy > 30000 THEN Max2(dx, dy)
        ELSE ISqrtIn(dx * dx + dy * dy, 0, 46000)

\* A bound on the implied speed instead: distance / dt > 100 m/s.
TeleportedBySpeed(prev, t, lat, lon) ==
    LET dtMs == t - prev.t
        distance == haversineDistance(prev.lat, prev.lon, lat, lon)
    IN  dtMs > 0 /\ 10 * distance > dtMs

\* The teleportation test shared by the binary, VBO and Alfano decoders:
\* timeDiff in (0, 10) s, distance > 50 * (timeDiff / 0.04) and distance > 100.
\* 50 * (dt/0.04) metres with dt in seconds is 1.25 m per millisecond.
Teleported(prev, t, lat, lon) ==
    LET dtMs == t - prev.t
        distance == haversineDistance(prev.lat, prev.lon, lat, lon)
    IN  /\ dtMs > 0
        /\ dtMs < 10000
        /\ 4 * distance > 5 * dtMs
        /\ distance > 100

Last(s) == s[Len(s)]


(***************************************************************************)
(* The recording device: how a well-formed buffer is produced.  This is    *)
(* the environment of the decoder, not code of the repository.  The device *)
(* computes the frame checksum in closed form (sum and weighted sum of the *)
(* bytes), independently of the decoder's running sum.                     *)
(***************************************************************************)
LE16(v) == <<v % 256, (v \div 256) % 256>>

LE32(v) == <<v % 256, (v \div 256) % 256, (v \div 65536) % 256, (v \div 16777216) % 256>>

Zeros(n) == [k \in 1..n |-> 0]

RECURSIVE SumRange(_, _, _)
SumRange(s, i, j) ==
    IF j < i THEN 0
    ELSE IF j = i THEN s[i]
    ELSE LET m == (i + j) \div 2 IN SumRange(s, i, m) + SumRange(s, m + 1, j)

SumSeq(s) == SumRange(s, 1, Len(s))

FletcherA(body) == SumSeq(body) % 256

FletcherB(body) == SumSeq([k \in 1..Len(body) |-> (Len(body) - k + 1) * body[k]]) % 256

FrameBytes(cls, id, payload) ==
    LET body == <<cls, id>> \o LE16(Len(payload)) \o payload
    IN  <<UBX_SYNC_1, UBX_SYNC_2>> \o body \o <<FletcherA(body), FletcherB(body)>>

\* The 92-byte NAV-PVT payload with the fields the decoders read.
NavPayload(tp) ==
    LE32(tp.iTOW) \o LE16(2026) \o <<11, 1, tp.hour, tp.min, tp.sec, tp.valid>>
    \o Zeros(4) \o LE32(tp.nano) \o <<tp.fixType, tp.flags, 0, 9>>
    \o LE32(tp.lon) \o LE32(tp.lat) \o Zeros(28)
    \o LE32(tp.gSpeed) \o LE32(tp.headMot) \o Zeros(24)

\* A good fix at 12:00:00.  The longitude 9.9967488 deg is 0x05F56200: its
\* second byte is 0x62, the second sync byte.
NavGood ==
    [iTOW |-> 216000000, hour |-> 12, min |-> 0, sec |-> 0, nano |-> 0, valid |-> 3,
     fixType |-> 3, flags |-> 1, lon |-> 99967488, lat |-> 450000000,
     gSpeed |-> 10000, headMot |-> 9000000]

\* A frame without a fix: well-formed, and yields no sample.
NavNoFix == [NavGood EXCEPT !.fixType = 0, !.flags = 0, !.valid = 0]

FrameKinds == {"navGood", "navNoFix", "other"}

FrameOf(kind) ==
    CASE kind = "navGood"  -> FrameBytes(UBX_NAV_CLASS, UBX_NAV_PVT, NavPayload(NavGood))
      [] kind = "navNoFix" -> FrameBytes(UBX_NAV_CLASS, UBX_NAV_PVT, NavPayload(NavNoFix))
      [] OTHER             -> FrameBytes(UBX_NAV_CLASS, 3, <<1, 2, 3, 4>>)

RECURSIVE Concat(_)
Concat(fs) == IF fs = <<>> THEN <<>> ELSE fs[1] \o Concat(Tail(fs))

\* 0-based offset at which frame k of the layout starts.
FrameStart(kinds, k) == Len(Concat([j \in 1..(k - 1) |-> FrameOf(kinds[j])]))

FrameLen(kinds, k) == Len(FrameOf(kinds[k]))

\* The values a corrupted byte may take.
CorruptBytes == {181, 255}

NoCorruption == [frame |-> 0, pos |-> 0, val |-> 0]

\* A single corrupted payload byte of the first frame (or none).
Corruptions(kinds) ==
    {NoCorruption} \cup
    {[frame |-> 1, pos |-> p, val |-> v] :
        p \in 0..(FrameLen(kinds, 1) - 9), v \in CorruptBytes}

Buffer(kinds, c) ==
    LET clean == Concat([j \in 1..Len(kinds) |-> FrameOf(kinds[j])])
    IN  IF c.frame = 0 THEN clean
        ELSE [clean EXCEPT ![FrameStart(kinds, c.frame) + 6 + c.pos + 1] = c.val]

(***************************************************************************)
(* parseNavPvt.  Variant A (speedBounds.ts) takes the payload view and     *)
(* rejects a short payload, a fix type below 2 and a missing time or date  *)
(* validity bit.  Variant B (ubxParser.ts) reads the fields at the frame's *)
(* offset; the caller tests fixType and the gnssFixOK flag.                *)
(***************************************************************************)
parseNavPvtA(off, length) ==
    LET p == off + 6
    IN  IF length < NAV_PVT_LENGTH THEN [ok |-> FALSE]
        ELSE LET valid == Byte(p + 11)
                 fixType == Byte(p + 20)
             IN  IF fixType < 2 \/ valid % 2 = 0 \/ (valid \div 2) % 2 = 0
                 THEN [ok |-> FALSE]
                 ELSE [ok |-> TRUE,
                       hour |-> Byte(p + 8), min |-> Byte(p + 9), sec |-> Byte(p + 10),
                       nano |-> GetInt32(p + 16),
                       lon |-> GetInt32(p + 24), lat |-> GetInt32(p + 28),
                       gSpeed |-> GetInt32(p + 60), headMot |-> GetInt32(p + 64)]

parseNavPvtB(off) ==
    LET p == off + 6
    IN  \* a read past the end of the buffer throws, and the catch returns null
        IF p + 88 > Len(data) THEN [ok |-> FALSE]
        ELSE [ok |-> TRUE,
              iTOW |-> GetUint32(p), fixType |-> Byte(p + 20), flags |-> Byte(p + 21),
              lon |-> GetInt32(p + 24), lat |-> GetInt32(p + 28),
              gSpeed |-> GetInt32(p + 60), headMot |-> GetInt32(p + 64)]

(***************************************************************************)
(* The body of the decode loop after a frame was framed: what one NAV-PVT  *)
(* record does to samples and baseTimeMs.  `src` is a ghost tag naming the *)
(* frame (or row) a sample came from.                                      *)
(***************************************************************************)
Keep == [samples |-> samples, base |-> base]

\* GpsSample.heading is a number of degrees or undefined.
NoHeading == [set |-> FALSE, v |-> 0]

Heading(v) == [set |-> TRUE, v |-> v]

\* speedBounds.ts lines 369..372: headMot (1e-5 degree in the record, whole
\* degrees in the inputs drawn here) brought into 0..360 by one step
HeadMotA(headMot) ==
    LET heading == headMot \div 100000
        h1 == IF heading < 0 THEN heading + 360 ELSE heading
    IN  IF h1 >= 360 THEN h1 - 360 ELSE h1

\* speedBounds.ts lines 330..392
UbxARow(pvt, src) ==
    IF ~pvt.ok THEN Keep
    ELSE IF pvt.lat = 0 \/ pvt.lon = 0 THEN Keep
    ELSE
      LET timeMs == (pvt.hour * 3600 + pvt.min * 60 + pvt.sec) * 1000
                    + pvt.nano \div 1000000
          nb == IF base.set THEN base ELSE [set |-> TRUE, v |-> timeMs]
          t0 == timeMs - nb.v
          t == IF t0 < 0 THEN t0 + MS_PER_DAY ELSE t0
      IN  IF pvt.gSpeed > MAX_SPEED_MMPS THEN [samples |-> samples, base |-> nb]
          ELSE IF Len(samples) > 0 /\ Teleported(Last(samples), t, pvt.lat, pvt.lon)
          THEN [samples |-> samples, base |-> nb]
          ELSE [samples |-> Append(samples,
                    [t |-> t, lat |-> pvt.lat, lon |-> pvt.lon,
                     speed |-> pvt.gSpeed, heading |-> Heading(HeadMotA(pvt.headMot)),
                     src |-> src]),
                base |-> nb]

\* ubxParser.ts lines 139..200; headMot goes to extraFields.heading, the
\* sample's own heading stays undefined
UbxBRow(length, pvt, src) ==
    IF length < NAV_PVT_MIN_LENGTH_B \/ ~pvt.ok THEN Keep
    ELSE IF ~(pvt.fixType >= 2 /\ pvt.flags % 2 = 1) THEN Keep
    ELSE IF ~(pvt.lat # 0 /\ pvt.lon # 0
              /\ Abs(pvt.lat) <= LAT_LIMIT /\ Abs(pvt.lon) <= LON_LIMIT) THEN Keep
    ELSE
      LET timeMs == pvt.iTOW
          nb == IF Len(samples) = 0 THEN [set |-> TRUE, v |-> timeMs] ELSE base
          t0 == timeMs - nb.v
          adjustedT == IF t0 < 0 THEN t0 + MS_PER_WEEK ELSE t0
          speed == IF pvt.gSpeed > MAX_SPEED_MMPS
                   THEN (IF Len(samples) > 0 THEN Last(samples).speed ELSE 0)
                   ELSE pvt.gSpeed
      IN  IF Len(samples) > 0 /\ Teleported(Last(samples), adjustedT, pvt.lat, pvt.lon)
          THEN [samples |-> samples, base |-> nb]
          ELSE [samples |-> Append(samples,
                    [t |-> adjustedT, lat |-> pvt.lat, lon |-> pvt.lon,
                     speed |-> speed, heading |-> NoHeading, src |-> src]),
                base |-> nb]

\* samples.sort((a, b) => a.t - b.t): a stable sort by t (insertion sort).
RECURSIVE InsertByT(_, _)
InsertByT(sorted, s) ==
    IF sorted = <<>> THEN <<s>>
    ELSE IF Last(sorted).t <= s.t THEN Append(sorted, s)
    ELSE Append(InsertByT(SubSeq(sorted, 1, Len(sorted) - 1), s), Last(sorted))

RECURSIVE SortByT(_)
SortByT(s) ==
    IF s = <<>> THEN <<>>
    ELSE InsertByT(SortByT(SubSeq(s, 1, Len(s) - 1)), Last(s))

(***************************************************************************)
(* The code after a decoder's loop: the derivation of 'Lat G' and 'Lon G'  *)
(* from the samples' speeds and headings, and its smoothing.  Values are   *)
(* in thousandths of g, accelerations in mm/s^2, yaw rates in mrad/s; a    *)
(* quotient is truncated towards zero.                                     *)
(***************************************************************************)
GRAVITY == 9807

AIM_GRAVITY == 9810

MAX_G == 3000

MIN_DT == 50

\* Math.PI / 180, in microradians per degree
RAD_PER_DEG == 17453

\* a * b / c for a, b >= 0 and c > 0, without an intermediate product a * b
MulDiv(a, b, c) == (a \div c) * b + ((a % c) * b) \div c

\* a * b / c for signed a and b
Scaled(a, b, c) ==
    IF (a < 0) = (b < 0) THEN MulDiv(Abs(a), Abs(b), c) ELSE -MulDiv(Abs(a), Abs(b), c)

clamp(value, min, max) ==
    LET m == IF max < value THEN max ELSE value
    IN  IF min > m THEN min ELSE m

\* part_000 lines 64..70 (the same in part_001 and speedBounds.ts)
normalizeHeadingDelta(h2, h1) ==
    IF ~h2.set \/ ~h1.set THEN 0
    ELSE LET delta == h2.v - h1.v
             d1 == IF delta > 180 THEN delta - 360 ELSE delta
         IN  IF d1 < -180 THEN d1 + 360 ELSE d1

\* aimParser.ts lines 15..19: the two while loops
normalizeHeadingDeltaAim(delta) ==
    IF delta > 180 THEN ((delta + 179) % 360) - 179
    ELSE IF delta < -180 THEN ((delta + 180) % 360) - 180
    ELSE delta

\* (dv / dt) with dv in mm/s and dt in ms, in mm/s^2
Accel(dv, dt) == Scaled(dv, 1000, dt)

\* speed * (dHeading * PI / 180) / dt, in mm/s^2
LatAccel(speed, dHeading, dt) ==
    Scaled(speed, Scaled(dHeading, RAD_PER_DEG, dt), 1000)

\* part_000 lines 73..104: the 'Lat G' and 'Lon G' of sample i
AccelerationAt(ss, i) ==
    LET prev == ss[IF i - 1 < 1 THEN 1 ELSE i - 1]
        curr == ss[i]
        next == ss[IF i + 1 > Len(ss) THEN Len(ss) ELSE i + 1]
        dt == next.t - prev.t
    IN  IF dt < MIN_DT THEN [latG |-> 0, lonG |-> 0]
        ELSE [latG |-> clamp(Scaled(LatAccel(curr.speed,
                                             normalizeHeadingDelta(next.heading, prev.heading),
                                             dt),
                                    1000, GRAVITY),
                             -MAX_G, MAX_G),
              lonG |-> clamp(Scaled(Accel(next.speed - prev.speed, dt), 1000, GRAVITY),
                             -MAX_G, MAX_G)]

calculateAccelerations(ss) == [i \in 1..Len(ss) |-> AccelerationAt(ss, i)]

\* part_000 lines 107..122: the centered mean of `values` over windowSize
\* places, fewer at the two ends
smoothField(values, windowSize) ==
    LET halfWindow == windowSize \div 2
        from(i) == IF i - halfWindow < 1 THEN 1 ELSE i - halfWindow
        to(i) == IF i + halfWindow > Len(values) THEN Len(values) ELSE i + halfWindow
    IN  [i \in 1..Len(values) |->
            Scaled(SumRange(values, from(i), to(i)), 1, to(i) - from(i) + 1)]

\* extraFields of a sample: a function from field names to numbers
NoFields == [k \in {} |-> 0]

WithFields(ss, fields) ==
    [i \in 1..Len(ss) |->
        [t |-> ss[i].t, lat |-> ss[i].lat, lon |-> ss[i].lon, speed |-> ss[i].speed,
         heading |-> ss[i].heading, src |-> ss[i].src, extraFields |-> fields[i]]]

\* calculateAccelerations(samples); smoothField(samples, 'Lat G', 5);
\* smoothField(samples, 'Lon G', 5)
DerivedG(ss) ==
    LET g == calculateAccelerations(ss)
        latG == smoothField([i \in 1..Len(ss) |-> g[i].latG], 5)
        lonG == smoothField([i \in 1..Len(ss) |-> g[i].lonG], 5)
    IN  WithFields(ss, [i \in 1..Len(ss) |->
                           [k \in {"Lat G", "Lon G"} |->
                               IF k = "Lat G" THEN latG[i] ELSE lonG[i]]])

\* aimParser.ts lines 349..378, for a file without G columns: the samples
\* between the first and the last get 'Lon G' when dt > 0, and 'Lat G' when
\* moreover the sample and the one before it have a heading
AimFieldsAt(ss, i) ==
    IF i = 1 \/ i = Len(ss) THEN NoFields
    ELSE LET prev == ss[i - 1]
             curr == ss[i]
             next == ss[i + 1]
             dt == next.t - prev.t
             hasLat == curr.heading.set /\ prev.heading.set
         IN  IF dt <= 0 THEN NoFields
             ELSE [k \in (IF hasLat THEN {"Lat G", "Lon G"} ELSE {"Lon G"}) |->
                     IF k = "Lon G"
                     THEN clamp(Scaled(Accel(next.speed - prev.speed, dt), 1000, AIM_GRAVITY),
                                -MAX_G, MAX_G)
                     ELSE clamp(Scaled(LatAccel(curr.speed,
                                    normalizeHeadingDeltaAim(curr.heading.v - prev.heading.v),
                                    dt),
                                1000, AIM_GRAVITY),
                                -MAX_G, MAX_G)]

AimDerivedG(ss) == WithFields(ss, [i \in 1..Len(ss) |-> AimFieldsAt(ss, i)])

\* The decoders that derive nothing: nmeaParser.ts, ubxParser.ts
NoDerivedG(ss) == WithFields(ss, [i \in 1..Len(ss) |-> NoFields])

(***************************************************************************)
(* The binary decoder, one scan step per action.                           *)
(*   pc = "ubxA": parseUbxFile of speedBounds.ts, inside findNextUbxMessage *)
(*   pc = "ubxB": parseUbxFile of ubxParser.ts                              *)
(*   pc = "done": the call has returned or thrown                           *)
(***************************************************************************)
NoBase == [set |-> FALSE, v |-> 0]

\* The row decoders' locals before the first row: lastTimeMs = 0 and
\* dayOffset = 0 (nmeaParser.ts), timeMultiplier = 1000 and speedMultiplier =
\* 1/3.6 (aimParser.ts).
NoRow == [sec |-> 0, ms |-> 0, place |-> [lat |-> 0, lon |-> 0], fast |-> FALSE]

\* file and row are ghosts: the kind of file being read and, in a file of
\* the "near" kind, the row read last.  structure is "missing" for a text
\* file without the section or header row its decoder looks for.
NoDec == [format |-> "none", file |-> "none", structure |-> "ok",
          rows |-> 0, row |-> NoRow,
          lastTimeMs |-> 0, dayOffset |-> 0,
          timeMultiplier |-> 1000, speedMultiplier |-> "kmh"]

\* The lap engine's variables while no lap computation is modelled.
NoCourse == [kind |-> "none"]

NoOptimal ==
    [set |-> FALSE, optimalTimeMs |-> <<0, 1>>, bestS1 |-> <<0, 1>>,
     bestS2 |-> <<0, 1>>, bestS3 |-> <<0, 1>>, deltaToFastest |-> <<0, 1>>]

IdleUbx ==
    /\ data = <<>> /\ offset = 0 /\ accepted = <<>>
    /\ layout = <<>> /\ corrupt = NoCorruption

NoCrossings == [sf |-> <<>>, s2 |-> <<>>, s3 |-> <<>>]

IdleLap ==
    /\ course = NoCourse /\ crossings = NoCrossings
    /\ laps = <<>> /\ optimal = NoOptimal

NoEvt == [interval |-> 0, i |-> 0, smoothed |-> <<>>,
          smoothingWindow |-> 5, minSwing |-> 3, minSeparationMs |-> 1000,
          debounceCount |-> 2,
          lastExtremumType |-> "null", lastExtremumSpeed |-> 0,
          lastExtremumTimeSet |-> FALSE, lastExtremumTime |-> 0,
          lastDerivSign |-> "zero"]

NoInput == [isBuffer |-> FALSE, sync |-> FALSE, marker |-> "none",
            headers |-> FALSE, metadata |-> FALSE, channels |-> FALSE]

NoDisp == [entry |-> "none", input |-> NoInput, sniffed |-> <<>>, called |-> <<>>,
           outcome |-> "none"]

IdleEvt ==
    /\ events = <<>>
    /\ evt = NoEvt

IdlePost ==
    /\ IdleEvt
    /\ disp = NoDisp

\* Index.tsx lines 25..33: the page before a file and a course are chosen
NoPage ==
    [data |-> [set |-> FALSE, samples |-> <<>>],
     selection |-> [set |-> FALSE, trackName |-> "", courseName |-> "", course |-> NoCourse],
     laps |-> <<>>, isLoadingSample |-> FALSE]

\* trackStorage.ts line 34 and an empty localStorage
NoStore ==
    [cache |-> [set |-> FALSE, tracks |-> <<>>], storage |-> <<>>,
     returned |-> [set |-> FALSE, tracks |-> <<>>],
     watched |-> <<"", "">>, deleted |-> FALSE, gone |-> FALSE]

IdleApp ==
    /\ page = NoPage
    /\ store = NoStore

InitUbx ==
    \E n \in 1..MaxFrames :
      \E kinds \in [1..n -> FrameKinds] :
        \E c \in Corruptions(kinds) :
          \E variant \in {"ubxA", "ubxB"} :
            /\ c.frame # 0 => Buffer(kinds, NoCorruption) # Buffer(kinds, c)
            /\ layout = kinds
            /\ corrupt = c
            /\ data = Buffer(kinds, c)
            /\ offset = 0
            /\ pc = variant
            /\ samples = <<>>
            /\ base = NoBase
            /\ result = "none"
            /\ accepted = <<>>
            /\ dec = NoDec
            /\ IdleLap
            /\ IdlePost
            /\ IdleApp

Sync(off) == Byte(off) = UBX_SYNC_1 /\ Byte(off + 1) = UBX_SYNC_2

\* Both loops test this before they read data[offset .. offset + 5].
InScan == offset < Len(data) - 8

FrameFits(off, length) == off + 6 + length + 2 <= Len(data)

\* speedBounds.ts lines 140..141, 170: no sync sequence here
UbxAScanByte ==
    /\ pc = "ubxA" /\ InScan /\ ~Sync(offset)
    /\ offset' = offset + 1
    /\ UNCHANGED <<data, pc, samples, base, result, accepted, layout, corrupt, dec, lapVars, appVars, postVars>>

\* speedBounds.ts lines 164..168: bad checksum, move one byte forward
UbxABadChecksum ==
    /\ pc = "ubxA" /\ InScan /\ Sync(offset)
    /\ FrameFits(offset, GetUint16(offset + 4))
    /\ ~ChecksumMatches(offset, GetUint16(offset + 4))
    /\ offset' = offset + 1
    /\ UNCHANGED <<data, pc, samples, base, result, accepted, layout, corrupt, dec, lapVars, appVars, postVars>>

\* speedBounds.ts lines 156..163 and 323..392: a frame is returned, the offset
\* moves past it, and a NAV-PVT frame is interpreted
UbxAFrame ==
    /\ pc = "ubxA" /\ InScan /\ Sync(offset)
    /\ LET length == GetUint16(offset + 4)
       IN  /\ FrameFits(offset, length)
           /\ ChecksumMatches(offset, length)
           /\ accepted' = Append(accepted, <<offset, length>>)
           /\ offset' = offset + 6 + length + 2
           /\ LET r == IF Byte(offset + 2) # UBX_NAV_CLASS \/ Byte(offset + 3) # UBX_NAV_PVT
                       THEN Keep
                       ELSE UbxARow(parseNavPvtA(offset, length), offset)
              IN  samples' = r.samples /\ base' = r.base
    /\ UNCHANGED <<data, pc, result, layout, corrupt, dec, lapVars, appVars, postVars>>

\* The end of parseUbxFile: throw on an empty list, else return the stream.
UbxAReturn ==
    /\ pc' = "done"
    /\ result' = IF Len(samples) = 0 THEN "error" ELSE "ok"
    /\ samples' = DerivedG(samples)
    /\ UNCHANGED <<data, offset, base, accepted, layout, corrupt, dec, lapVars, appVars, postVars>>

\* speedBounds.ts lines 147..149: the length field points past the buffer;
\* findNextUbxMessage returns null and parseUbxFile leaves its loop
UbxATruncated ==
    /\ pc = "ubxA" /\ InScan /\ Sync(offset)
    /\ ~FrameFits(offset, GetUint16(offset + 4))
    /\ UbxAReturn

\* speedBounds.ts lines 140, 172, 319..321: the scan reached the end
UbxAEnd ==
    /\ pc = "ubxA" /\ ~InScan
    /\ UbxAReturn

\* ubxParser.ts lines 113..116
UbxBScanByte ==
    /\ pc = "ubxB" /\ InScan /\ ~Sync(offset)
    /\ offset' = offset + 1
    /\ UNCHANGED <<data, pc, samples, base, result, accepted, layout, corrupt, dec, lapVars, appVars, postVars>>

\* ubxParser.ts lines 123..126
UbxBTruncated ==
    /\ pc = "ubxB" /\ InScan /\ Sync(offset)
    /\ ~FrameFits(offset, GetUint16(offset + 4))
    /\ offset' = offset + 1
    /\ UNCHANGED <<data, pc, samples, base, result, accepted, layout, corrupt, dec, lapVars, appVars, postVars>>

\* ubxParser.ts lines 133..136
UbxBBadChecksum ==
    /\ pc = "ubxB" /\ InScan /\ Sync(offset)
    /\ FrameFits(offset, GetUint16(offset + 4))
    /\ ~ChecksumMatches(offset, GetUint16(offset + 4))
    /\ offset' = offset + 1
    /\ UNCHANGED <<data, pc, samples, base, result, accepted, layout, corrupt, dec, lapVars, appVars, postVars>>

\* ubxParser.ts lines 138..203
UbxBFrame ==
    /\ pc = "ubxB" /\ InScan /\ Sync(offset)
    /\ LET length == GetUint16(offset + 4)
       IN  /\ FrameFits(offset, length)
           /\ ChecksumMatches(offset, length)
           /\ accepted' = Append(accepted, <<offset, length>>)
           /\ offset' = offset + 6 + length + 2
           /\ LET r == IF Byte(offset + 2) # UBX_NAV_CLASS \/ Byte(offset + 3) # UBX_NAV_PVT
                       THEN Keep
                       ELSE UbxBRow(length, parseNavPvtB(offset), offset)
              IN  samples' = r.samples /\ base' = r.base
    /\ UNCHANGED <<data, pc, result, layout, corrupt, dec, lapVars, appVars, postVars>>

\* ubxParser.ts lines 206..232: throw on an empty list, else sort and return
UbxBEnd ==
    /\ pc = "ubxB" /\ ~InScan
    /\ pc' = "done"
    /\ result' = IF Len(samples) = 0 THEN "error" ELSE "ok"
    /\ samples' = NoDerivedG(SortByT(samples))
    /\ UNCHANGED <<data, offset, base, accepted, layout, corrupt, dec, lapVars, appVars, postVars>>

NextUbx ==
    \/ UbxAScanByte
    \/ UbxABadChecksum
    \/ UbxAFrame
    \/ UbxATruncated
    \/ UbxAEnd
    \/ UbxBScanByte
    \/ UbxBTruncated
    \/ UbxBBadChecksum
    \/ UbxBFrame
    \/ UbxBEnd

SpecUbx == InitUbx /\ [][NextUbx]_vars


(***************************************************************************)
(* Claims about the binary decoder.                                        *)
(***************************************************************************)
\* The bytes the checksum covers (class, id, length, payload) of the frame at
\* 0-based offset off with payload length len, and the device's checksum law.
FrameBody(off, len) == SubSeq(data, off + 3, off + 6 + len)

FrameIsSound(off, len) ==
    /\ off + 6 + len + 2 <= Len(data)
    /\ FletcherA(FrameBody(off, len)) = Byte(off + 6 + len)
    /\ FletcherB(FrameBody(off, len)) = Byte(off + 6 + len + 1)

\* C1: a frame is interpreted, and can emit a sample, only if both bytes of
\* its running-sum checksum match the two trailing bytes of the frame: every
\* frame the decoder took is sound by the device's checksum law, and every
\* sample comes from a frame the decoder took.
C1_ChecksumGate ==
    /\ \A k \in 1..Len(accepted) : FrameIsSound(accepted[k][1], accepted[k][2])
    /\ \A i \in 1..Len(samples) :
          \E k \in 1..Len(accepted) : accepted[k][1] = samples[i].src

\* C1's case: the first frame's payload was corrupted, the decoder finished,
\* and the only sample is the one of the intact second frame.
C1_Witness ==
    /\ pc = "done" /\ result = "ok"
    /\ corrupt.frame = 1 /\ Len(layout) = 2
    /\ Len(samples) = 1 /\ samples[1].src = FrameStart(layout, 2)

\* Samples that came from inside the corrupted frame.
FromCorruptedFrame(i) ==
    /\ corrupt.frame # 0
    /\ samples[i].src >= FrameStart(layout, corrupt.frame)
    /\ samples[i].src < FrameStart(layout, corrupt.frame) + FrameLen(layout, corrupt.frame)

\* C2: after a frame with one corrupted payload byte the decoder
\* resynchronises: when it has finished, the corrupted frame has yielded no
\* sample and every well-formed navigation frame that starts at or after the
\* end of the corrupted frame has been decoded into a sample.
C2_ResyncAfterCorruption ==
    (pc = "done" /\ corrupt.frame # 0) =>
        /\ \A i \in 1..Len(samples) : ~FromCorruptedFrame(i)
        /\ \A k \in (corrupt.frame + 1)..Len(layout) :
              layout[k] = "navGood" =>
                 \E i \in 1..Len(samples) : samples[i].src = FrameStart(layout, k)


\* A frame starts at the scan offset, fits the buffer and has a matching
\* checksum: the attempt at this offset succeeds.
FrameAtOffset ==
    /\ Sync(offset)
    /\ FrameFits(offset, GetUint16(offset + 4))
    /\ ChecksumMatches(offset, GetUint16(offset + 4))

\* A step of the scan as claimed: from an offset where no frame is accepted
\* (no sync sequence, a length that does not fit, a checksum mismatch) the
\* offset moves one byte forward, accepting a frame moves it by
\* 6 + length + 2, and the scan ends only at the end of the buffer.
ScanStepAsClaimed ==
    pc \in {"ubxA", "ubxB"} =>
        (IF ~InScan THEN pc' = "done" /\ offset' = offset
         ELSE IF FrameAtOffset
         THEN pc' = pc /\ offset' = offset + 6 + GetUint16(offset + 4) + 2
         ELSE pc' = pc /\ offset' = offset + 1)

\* C19: every step of the binary decoder's scan advances the offset by one
\* byte after a failed framing or checksum attempt and by the frame's full
\* length after an accepted frame, so that the offset never decreases and the
\* scan ends at the end of the buffer.
C19_ScanAdvances == [][ScanStepAsClaimed]_vars

(***************************************************************************)
(* The row loops of the decoders.  A file is a sequence of rows; each row  *)
(* is what the receiver measured, written in the format's notation by the  *)
(* ...Field operators (the environment) and read back by the decoder's own *)
(* parse functions.  Only rows that pass the decoder's syntactic tests are *)
(* drawn (an RMC sentence with status A, a CSV row with numeric fields).   *)
(***************************************************************************)
MaxRows == 3

\* Seconds relative to 12:00:00 UTC.
Clocks == {-1, 0, 1, 5}

\* Positions in 1e-7 degree: a good one, zero latitude, zero longitude,
\* latitude 95 degrees, longitude 185 degrees.
Places ==
    {[lat |-> 450000000, lon |-> 100000000],
     [lat |-> 0,         lon |-> 100000000],
     [lat |-> 450000000, lon |-> 0],
     [lat |-> 950000000, lon |-> 100000000],
     [lat |-> 450000000, lon |-> 1850000000]}

\* fast: the row reports about 200 m/s instead of 10 m/s.
Rows == [sec : Clocks, ms : {0}, place : Places, fast : BOOLEAN]

\* A second kind of file, from a 25 Hz receiver: rows 40 ms apart at the good
\* position, 20 m north of it (180 microdegrees) or 222 m north of it.
NearPlaces ==
    {[lat |-> 450000000, lon |-> 100000000],
     [lat |-> 450001800, lon |-> 100000000],
     [lat |-> 450020000, lon |-> 100000000]}

NearRows == [sec : {0}, ms : {0, 40, 80}, place : NearPlaces, fast : BOOLEAN]

FileKinds == {"clock", "near"}

RowsOf(kind) == IF kind = "near" THEN NearRows ELSE Rows

\* The course the receiver reports with a row, in degrees: the vehicle turns
\* 20 degrees every 40 ms through north.  Text files of the "clock" kind
\* have no heading column.
RowHeading(row) == IF row.ms = 0 THEN -10 ELSE IF row.ms = 40 THEN 10 ELSE 30

HasHeadingColumn == dec.file = "near"

\* part_000 lines 289..299, part_001 lines 326..336: the heading field, if
\* the file has the column, wrapped into 0..360 by the two while loops
HeadingColumn(h) == IF HasHeadingColumn THEN Heading(h % 360) ELSE NoHeading

SecOfDay(sec) == 12 * 3600 + sec

(***************************************************************************)
(* VBO (sectioned text).  The time field is hhmmss.sss, here in            *)
(* thousandths; a coordinate field is a decimal number, here in units of   *)
(* 1e-5; the velocity is in whole km/h.                                    *)
(***************************************************************************)
VboFields(row) ==
    LET s == SecOfDay(row.sec)
    IN  [time |-> ((s \div 3600) * 10000 + ((s \div 60) % 60) * 100 + (s % 60)) * 1000
                      + row.ms,
         lat |-> row.place.lat \div 100,
         lon |-> row.place.lon \div 100,
         velocity |-> IF row.fast THEN 720 ELSE 36,
         heading |-> RowHeading(row)]

\* parseVboTime: a number of at least 100000 is hhmmss.sss (ten characters
\* with three decimals), a smaller one is seconds since midnight.
parseVboTime(v) ==
    IF v >= 100000000
    THEN ((v \div 10000000) * 3600 + ((v \div 100000) % 100) * 60) * 1000 + (v % 100000)
    ELSE v

\* parseVboCoordinate: up to 180 the number is decimal degrees, beyond it is
\* DDDMM.MMMMM.  The result is in 1e-7 degree.
parseVboCoordinate(f) ==
    IF Abs(f) <= 18000000 THEN f * 100
    ELSE LET sign == IF f < 0 THEN -1 ELSE 1
             degrees == Abs(f) \div 10000000
             minutes == Abs(f) - degrees * 10000000
         IN  sign * (degrees * 10000000 + (minutes * 100) \div 60)

\* km/h to mm/s: speedKph / 3.6
KphToMmps(kph) == (kph * 10000) \div 36

\* part_000 lines 258..363: one data row of parseVboFile
VboRow(f, src) ==
    LET lat == parseVboCoordinate(f.lat)
        lon == parseVboCoordinate(f.lon)
    IN  IF lat = 0 \/ lon = 0 \/ Abs(lat) > LAT_LIMIT \/ Abs(lon) > LON_LIMIT THEN Keep
        ELSE
          LET timeMs == parseVboTime(f.time)
              nb == IF base.set THEN base ELSE [set |-> TRUE, v |-> timeMs]
              t0 == timeMs - nb.v
              t == IF t0 < 0 THEN t0 + MS_PER_DAY ELSE t0
              speed == KphToMmps(f.velocity)
          IN  IF speed > MAX_SPEED_MMPS THEN [samples |-> samples, base |-> nb]
              ELSE IF Len(samples) > 0 /\ Teleported(Last(samples), t, lat, lon)
              THEN [samples |-> samples, base |-> nb]
              ELSE [samples |-> Append(samples,
                        [t |-> t, lat |-> lat, lon |-> lon, speed |-> speed,
                         heading |-> HeadingColumn(f.heading), src |-> src]),
                    base |-> nb]

(***************************************************************************)
(* Alfano (metadata-preamble CSV).  Coordinates are decimal degrees, read  *)
(* by parseFloat; the time column is in seconds, here in thousandths; the  *)
(* speed is in km/h.                                                       *)
(***************************************************************************)
AlfanoFields(row) ==
    [time |-> SecOfDay(row.sec) * 1000 + row.ms,
     lat |-> row.place.lat, lon |-> row.place.lon,
     speed |-> IF row.fast THEN 720 ELSE 36,
     heading |-> RowHeading(row)]

\* part_001 lines 289..395: one data row of parseAlfanoFile
AlfanoRow(f, src) ==
    IF f.lat = 0 \/ f.lon = 0 THEN Keep
    ELSE IF Abs(f.lat) > LAT_LIMIT \/ Abs(f.lon) > LON_LIMIT THEN Keep
    ELSE
      LET timeMs == IF f.time > 100000 * 1000 THEN f.time \div 1000 ELSE f.time
          nb == IF base.set THEN base ELSE [set |-> TRUE, v |-> timeMs]
          t0 == timeMs - nb.v
          t == IF t0 < 0 THEN t0 + MS_PER_DAY ELSE t0
          speed == KphToMmps(f.speed)
      IN  IF speed > MAX_SPEED_MMPS THEN [samples |-> samples, base |-> nb]
          ELSE IF Len(samples) > 0 /\ Teleported(Last(samples), t, f.lat, f.lon)
          THEN [samples |-> samples, base |-> nb]
          ELSE [samples |-> Append(samples,
                    [t |-> t, lat |-> f.lat, lon |-> f.lon, speed |-> speed,
                     heading |-> HeadingColumn(f.heading), src |-> src]),
                base |-> nb]

(***************************************************************************)
(* AiM (channel-header CSV).  Coordinates are decimal degrees; the time    *)
(* column counts seconds of the session (the receiver started 100 s before *)
(* noon), here in thousandths; the speed is in km/h.  The loop keeps       *)
(* timeMultiplier and speedMultiplier, both decided on the first rows.     *)
(***************************************************************************)
AimFields(row) ==
    [time |-> (100 + row.sec) * 1000 + row.ms,
     lat |-> row.place.lat, lon |-> row.place.lon,
     speed |-> IF row.fast THEN 720 ELSE 36,
     heading |-> RowHeading(row)]

KeepDec == [samples |-> samples, base |-> base, dec |-> dec]

\* aimParser.ts lines 213..345: one data row of parseAimFile
AimRow(f, src) ==
    IF f.lat = 0 \/ f.lon = 0 THEN KeepDec
    ELSE IF f.lat < -LAT_LIMIT \/ f.lat > LAT_LIMIT
            \/ f.lon < -LON_LIMIT \/ f.lon > LON_LIMIT THEN KeepDec
    ELSE
      LET mult == IF base.set THEN dec.timeMultiplier
                  ELSE IF f.time < 10000 * 1000 THEN 1000 ELSE 1
          nb == IF base.set THEN base ELSE [set |-> TRUE, v |-> f.time]
          timeMs == IF mult = 1000 THEN f.time - nb.v ELSE (f.time - nb.v) \div 1000
          smult == IF Len(samples) = 0 /\ f.speed > 50 THEN "kmh"
                   ELSE IF Len(samples) = 0 /\ f.speed > 0 /\ f.speed < 30 THEN "mps"
                   ELSE dec.speedMultiplier
          speed == IF smult = "kmh" THEN KphToMmps(f.speed) ELSE f.speed * 1000
          nd == [dec EXCEPT !.timeMultiplier = mult, !.speedMultiplier = smult]
          \* impliedSpeed = dist / dt > 100 m/s, with dt > 0
          fastJump ==
              /\ Len(samples) > 0
              /\ timeMs - Last(samples).t > 0
              /\ 10 * haversineDistance(Last(samples).lat, Last(samples).lon, f.lat, f.lon)
                    > timeMs - Last(samples).t
      IN  IF fastJump THEN [samples |-> samples, base |-> nb, dec |-> nd]
          ELSE [samples |-> Append(samples,
                    [t |-> timeMs, lat |-> f.lat, lon |-> f.lon, speed |-> speed,
                     heading |-> IF HasHeadingColumn THEN Heading(f.heading) ELSE NoHeading,
                     src |-> src]),
                base |-> nb, dec |-> nd]

(***************************************************************************)
(* NMEA.  An RMC sentence carries hhmmss.sss, ddmm.mmmm,N/S, dddmm.mmmm,   *)
(* E/W and the speed in knots.  A coordinate field is [short, deg, min,    *)
(* neg] with min in 1e-4 minute; a receiver without a position leaves the  *)
(* field empty (short).                                                    *)
(***************************************************************************)
NmeaCoordField(x) ==
    [short |-> x = 0,
     deg |-> Abs(x) \div 10000000,
     min |-> ((Abs(x) % 10000000) * 6) \div 100,
     neg |-> x < 0]

NmeaFields(row) ==
    LET s == SecOfDay(row.sec)
    IN  [hours |-> s \div 3600, minutes |-> (s \div 60) % 60, seconds |-> s % 60,
         ms |-> row.ms,
         lat |-> NmeaCoordField(row.place.lat),
         lon |-> NmeaCoordField(row.place.lon),
         knots |-> IF row.fast THEN 400 ELSE 20]

\* parseNmeaLat / parseNmeaLon: 0 for a short field, else deg + min / 60,
\* negated for S / W.  The result is in 1e-7 degree.
parseNmeaLat(f) ==
    IF f.short THEN 0
    ELSE LET v == f.deg * 10000000 + (f.min * 1000) \div 60
         IN  IF f.neg THEN -v ELSE v

parseNmeaLon(f) ==
    IF f.short THEN 0
    ELSE LET v == f.deg * 10000000 + (f.min * 1000) \div 60
         IN  IF f.neg THEN -v ELSE v

\* knotsToMps: knots * 0.514444, in mm/s
knotsToMps(knots) == (knots * 514444) \div 1000

\* nmeaParser.ts lines 147..231: one RMC row of parseDatalog
NmeaRow(f, src) ==
    LET lat == parseNmeaLat(f.lat)
        lon == parseNmeaLon(f.lon)
        timeMs == (f.hours * 3600 + f.minutes * 60 + f.seconds) * 1000 + f.ms
        wrap == dec.lastTimeMs > 0 /\ timeMs + dec.dayOffset < dec.lastTimeMs - 43200000
        dayOffset == IF wrap THEN dec.dayOffset + MS_PER_DAY ELSE dec.dayOffset
        currentTimeMs == timeMs + dayOffset
        nb == IF Len(samples) = 0 THEN [set |-> TRUE, v |-> currentTimeMs] ELSE base
        t == currentTimeMs - nb.v
        raw == knotsToMps(f.knots)
        speed == IF raw > MAX_SPEED_MMPS
                 THEN (IF Len(samples) > 0 THEN Last(samples).speed ELSE 0)
                 ELSE raw
    IN  [samples |-> Append(samples,
              [t |-> t, lat |-> lat, lon |-> lon, speed |-> speed,
               heading |-> NoHeading, src |-> src]),
         base |-> nb,
         dec |-> [dec EXCEPT !.lastTimeMs = currentTimeMs, !.dayOffset = dayOffset]]

(***************************************************************************)
(* The binary decoders' loop bodies on NAV-PVT records that are already    *)
(* framed: the record the receiver sends for a row.                        *)
(***************************************************************************)
PvtOf(row) ==
    LET s == SecOfDay(row.sec)
    IN  [ok |-> TRUE,
         iTOW |-> 2 * MS_PER_DAY + s * 1000 + row.ms,
         hour |-> s \div 3600, min |-> (s \div 60) % 60, sec |-> s % 60,
         nano |-> row.ms * 1000000,
         fixType |-> 3, flags |-> 1,
         lon |-> row.place.lon, lat |-> row.place.lat,
         gSpeed |-> IF row.fast THEN 200000 ELSE 10000,
         headMot |-> RowHeading(row) * 100000]

(***************************************************************************)
(* The decoders as processes: pc names the decoder whose row loop runs,    *)
(* one row per step; the ...End action is the code after the loop (throw   *)
(* on an empty sample list, else return the stream).  The derived channels *)
(* computed after the loop do not touch t, lat, lon or the list's order.   *)
(***************************************************************************)
Formats == {"vbo", "alfano", "aim", "nmea", "ubxArows", "ubxBrows"}

TextFormats == {"vbo", "alfano", "aim", "nmea"}

InitDec ==
    \E f \in Formats, k \in FileKinds, st \in {"ok", "missing"} :
        /\ st = "missing" => (f \in TextFormats /\ k = "clock")
        /\ pc = f
        /\ dec = [NoDec EXCEPT !.format = f, !.file = k, !.structure = st]
        /\ samples = <<>>
        /\ base = NoBase
        /\ result = "none"
        /\ IdleUbx
        /\ IdleLap
        /\ IdlePost
        /\ IdleApp

MoreRows == dec.structure = "ok" /\ dec.rows < MaxRows

\* The throw before the row loop: 'No [data] section found in VBO file',
\* 'Could not find valid header row in Alfano CSV', 'Could not find AiM CSV
\* header row', 'Empty file'.
StructureError ==
    /\ dec.structure = "missing"
    /\ pc' = "done"
    /\ result' = "error"
    /\ UNCHANGED <<samples, base, dec, ubxVars, lapVars, appVars, postVars>>

RowStep(r, nd, row) ==
    /\ samples' = r.samples
    /\ base' = r.base
    /\ dec' = [nd EXCEPT !.rows = @ + 1,
                         !.row = IF nd.file = "near" THEN row ELSE NoRow]
    /\ UNCHANGED <<pc, result, ubxVars, lapVars, appVars, postVars>>

\* The code after the row loop, without its test of samples.length.
LoopEndNoThrow ==
    /\ dec.structure = "ok"
    /\ pc' = "done"
    /\ result' = "ok"
    /\ UNCHANGED <<base, dec, ubxVars, lapVars, appVars, postVars>>

LoopEnd ==
    /\ dec.structure = "ok"
    /\ pc' = "done"
    /\ result' = IF Len(samples) = 0 THEN "error" ELSE "ok"
    /\ UNCHANGED <<base, dec, ubxVars, lapVars, appVars, postVars>>

VboParseRow ==
    /\ pc = "vbo" /\ MoreRows
    /\ \E row \in RowsOf(dec.file) : RowStep(VboRow(VboFields(row), dec.rows + 1), dec, row)

\* part_000 lines 191..196
VboNoDataSection == pc = "vbo" /\ StructureError

\* part_000 lines 365..417
VboEnd == pc = "vbo" /\ LoopEnd /\ samples' = DerivedG(samples)

AlfanoParseRow ==
    /\ pc = "alfano" /\ MoreRows
    /\ \E row \in RowsOf(dec.file) : RowStep(AlfanoRow(AlfanoFields(row), dec.rows + 1), dec, row)

\* part_001 lines 263..271
AlfanoNoHeader == pc = "alfano" /\ StructureError

\* part_001 lines 438..498
AlfanoEnd == pc = "alfano" /\ LoopEnd /\ samples' = DerivedG(samples)

AimParseRow ==
    /\ pc = "aim" /\ MoreRows
    /\ \E row \in RowsOf(dec.file) :
          LET r == AimRow(AimFields(row), dec.rows + 1) IN RowStep(r, r.dec, row)

\* aimParser.ts lines 141..200
AimNoHeader == pc = "aim" /\ StructureError

\* aimParser.ts lines 343..397
AimEnd == pc = "aim" /\ LoopEnd /\ samples' = AimDerivedG(samples)

NmeaParseRow ==
    /\ pc = "nmea" /\ MoreRows
    /\ \E row \in RowsOf(dec.file) :
          LET r == NmeaRow(NmeaFields(row), dec.rows + 1) IN RowStep(r, r.dec, row)

\* nmeaParser.ts lines 119..123
NmeaEmptyFile == pc = "nmea" /\ StructureError

\* nmeaParser.ts lines 233..252
NmeaEnd == pc = "nmea" /\ LoopEnd /\ samples' = NoDerivedG(samples)

\* speedBounds.ts lines 323..392
UbxAParsePvt ==
    /\ pc = "ubxArows" /\ MoreRows
    /\ \E row \in RowsOf(dec.file) : RowStep(UbxARow(PvtOf(row), dec.rows + 1), dec, row)

\* speedBounds.ts lines 394..431
UbxARowsEnd == pc = "ubxArows" /\ LoopEnd /\ samples' = DerivedG(samples)

\* ubxParser.ts lines 138..203
UbxBParsePvt ==
    /\ pc = "ubxBrows" /\ MoreRows
    /\ \E row \in RowsOf(dec.file) :
          RowStep(UbxBRow(NAV_PVT_LENGTH, PvtOf(row), dec.rows + 1), dec, row)

\* ubxParser.ts lines 206..232: the sample list is sorted by t before returning
UbxBRowsEnd == pc = "ubxBrows" /\ LoopEnd /\ samples' = NoDerivedG(SortByT(samples))

NextDec ==
    \/ VboNoDataSection
    \/ VboParseRow
    \/ VboEnd
    \/ AlfanoNoHeader
    \/ AlfanoParseRow
    \/ AlfanoEnd
    \/ AimNoHeader
    \/ AimParseRow
    \/ AimEnd
    \/ NmeaEmptyFile
    \/ NmeaParseRow
    \/ NmeaEnd
    \/ UbxAParsePvt
    \/ UbxARowsEnd
    \/ UbxBParsePvt
    \/ UbxBRowsEnd

SpecDec == InitDec /\ [][NextDec]_vars

(***************************************************************************)
(* Claims about the sample list a decoder returns.                         *)
(***************************************************************************)
Returned == pc = "done" /\ result = "ok"

\* C3: every sample of a returned stream, whichever decoder produced it, has
\* a latitude within 90 degrees, a longitude within 180 degrees, and neither
\* coordinate exactly zero.
C3_CoordinatesInRange ==
    Returned =>
        \A i \in 1..Len(samples) :
            /\ Abs(samples[i].lat) <= LAT_LIMIT
            /\ Abs(samples[i].lon) <= LON_LIMIT
            /\ samples[i].lat # 0
            /\ samples[i].lon # 0

\* C4: every sample of a returned stream has an elapsed time t >= 0, for
\* every decoder, also when a row's timestamp is earlier than the first
\* accepted one by less than the decoder's wrap threshold.
C4_ElapsedTimeNonNegative ==
    Returned => \A i \in 1..Len(samples) : samples[i].t >= 0

\* C5: the sample list of a returned stream is in ascending order of elapsed
\* time, for every decoder.
C5_TimeAscending ==
    Returned => \A i \in 1..(Len(samples) - 1) : samples[i].t <= samples[i + 1].t

\* The claimed rejection test between a sample and the one before it: the
\* time difference is in (0, 10 s) and the distance exceeds
\* max(100 m, 50 m * (dt / 0.04 s)), that is max(100 m, 1.25 m per ms).
JumpTooFar(prev, cur) ==
    LET dtMs == cur.t - prev.t
        distance == haversineDistance(prev.lat, prev.lon, cur.lat, cur.lon)
    IN  /\ 0 < dtMs /\ dtMs < 10000
        /\ 4 * distance > Max2(4 * 100, 5 * dtMs)

\* C14: no two consecutive samples of a returned stream are further apart
\* than the teleportation filter allows.
C14_NoTeleport ==
    Returned => \A i \in 1..(Len(samples) - 1) : ~JumpTooFar(samples[i], samples[i + 1])

\* The decoders the 0.04 s scenario is about: binary (speedBounds.ts),
\* sectioned text and metadata-preamble CSV, reading a 25 Hz file.
NearDecoding == pc \in {"vbo", "alfano", "ubxArows", "done"}
                /\ dec.format \in {"vbo", "alfano", "ubxArows"} /\ dec.file = "near"

MetresApart(a, b) == haversineDistance(a.lat, a.lon, b.lat, b.lon)

\* The row read last, as the candidate sample the decoder made of it.
Candidate ==
    [t |-> SecOfDay(dec.row.sec) * 1000 + dec.row.ms - base.v,
     lat |-> dec.row.place.lat, lon |-> dec.row.place.lon]

\* C15 as claimed: a candidate 20 m from the previous accepted sample and
\* 0.04 s after it does not appear in the decoded stream.
C15_TwentyMetresRejected ==
    NearDecoding =>
        \A i \in 1..(Len(samples) - 1) :
            ~(/\ samples[i + 1].t - samples[i].t = 40
              /\ MetresApart(samples[i], samples[i + 1]) = 20)

\* C15 amended: 0.04 s after the previous accepted sample the filter
\* rejects a candidate exactly when it lies more than 100 m away; the
\* candidate 20 m away is accepted.  (A row dropped for its speed is not a
\* candidate of the filter.)
C15_HundredMetreFloor ==
    (NearDecoding /\ Len(samples) > 0) =>
        /\ \A i \in 1..(Len(samples) - 1) :
              samples[i + 1].t - samples[i].t = 40
                  => MetresApart(samples[i], samples[i + 1]) <= 100
        /\ (/\ dec.rows > 0 /\ Last(samples).src # dec.rows /\ ~dec.row.fast
            /\ Candidate.t - Last(samples).t = 40)
               => MetresApart(Last(samples), Candidate) > 100

\* The amended C15's cases: a candidate 20 m and 0.04 s from the previous
\* accepted sample was accepted, and one 222 m from it was rejected.
C15_Witness ==
    /\ NearDecoding /\ pc = "done" /\ result = "ok"
    /\ Len(samples) = 2 /\ dec.rows = 3
    /\ samples[1].src = 1 /\ samples[2].src = 2
    /\ samples[2].t - samples[1].t = 40
    /\ MetresApart(samples[1], samples[2]) = 20
    /\ ~dec.row.fast /\ Candidate.t - samples[2].t = 40
    /\ MetresApart(samples[2], Candidate) > 100

\* C16: the first sample of a returned stream has elapsed time 0.
C16_FirstSampleAtZero ==
    Returned => samples[1].t = 0

\* C17: a decoder's call ends either in an error or in a stream with at
\* least one sample; a file without the required section or header and a
\* file none of whose rows is accepted end in an error.
C17_StreamOrError ==
    pc = "done" =>
        /\ result \in {"ok", "error"}
        /\ result = "ok" => (Len(samples) >= 1 /\ dec.structure = "ok")
        /\ (Len(samples) = 0 \/ dec.structure = "missing") => result = "error"

\* C17's case: every row of the file was read and none was accepted.
C17_Witness ==
    /\ pc = "done" /\ dec.structure = "ok" /\ dec.rows = MaxRows
    /\ Len(samples) = 0 /\ result = "error"

HasDerivedG(s) ==
    /\ {"Lat G", "Lon G"} \subseteq DOMAIN s.extraFields
    /\ s.extraFields["Lat G"] \in -MAX_G..MAX_G
    /\ s.extraFields["Lon G"] \in -MAX_G..MAX_G

\* C20: whichever decoder ran on a file without G columns, every sample of
\* the returned stream, the first and the last included, carries 'Lat G'
\* and 'Lon G', and both lie in -3 .. 3 after the smoothing pass.
C20_DerivedGEverywhere ==
    Returned => \A i \in 1..Len(samples) : HasDerivedG(samples[i])

\* C21: in every returned stream each sample's heading is absent or lies in
\* 0 <= h < 360, whatever heading the file carried (negative ones included).
C21_HeadingNormalized ==
    Returned => \A i \in 1..Len(samples) :
                    samples[i].heading.set =>
                        (0 <= samples[i].heading.v /\ samples[i].heading.v < 360)

(***************************************************************************)
(* The lap engine (lapCalculation.ts).                                     *)
(*                                                                         *)
(* Times that the engine interpolates are exact rationals <<n, d>>, d > 0, *)
(* in lowest terms.  The plane of projectToPlane is the equirectangular    *)
(* plane around the centre of the start/finish line; the model keeps the   *)
(* offsets from the centre doubled, (2*lon - (A.lon + B.lon), 2*lat -      *)
(* (A.lat + B.lat)), and leaves out the two positive scale factors of the  *)
(* axes: every cross product is scaled by the same positive number, which  *)
(* changes neither its sign nor the quotient d1 / (d1 - d2).               *)
(***************************************************************************)
RECURSIVE Gcd(_, _)
Gcd(a, b) == IF b = 0 THEN a ELSE Gcd(b, a % b)

Rat(n, d) ==
    LET g == Gcd(Abs(n), Abs(d))
        sgn == IF d < 0 THEN -1 ELSE 1
    IN  <<sgn * (n \div g), sgn * (d \div g)>>

RatInt(n) == <<n, 1>>

RatAdd(p, q) == Rat(p[1] * q[2] + q[1] * p[2], p[2] * q[2])

RatSub(p, q) == Rat(p[1] * q[2] - q[1] * p[2], p[2] * q[2])

RatMul(p, q) == Rat(p[1] * q[1], p[2] * q[2])

RatLess(p, q) == p[1] * q[2] < q[1] * p[2]

RatLeq(p, q) == p[1] * q[2] <= q[1] * p[2]

projectToPlane(lat, lon, centerLat2, centerLon2) ==
    [x |-> 2 * lon - centerLon2, y |-> 2 * lat - centerLat2]

cross(o, a, b) == (a.x - o.x) * (b.y - o.y) - (a.y - o.y) * (b.x - o.x)

sideOfLine(p, a, b) == cross(a, b, p)

NoHit == [hit |-> FALSE, fraction |-> <<0, 1>>]

\* segmentIntersection: the fraction along p1 -> p2 at which the path segment
\* meets the timing line a-b, or null (NoHit).
segmentIntersection(p1, p2, a, b) ==
    LET d1 == sideOfLine(p1, a, b)
        d2 == sideOfLine(p2, a, b)
        d3 == sideOfLine(a, p1, p2)
        d4 == sideOfLine(b, p1, p2)
    IN  IF (d1 > 0 /\ d2 > 0) \/ (d1 < 0 /\ d2 < 0) THEN NoHit
        ELSE IF (d3 > 0 /\ d4 > 0) \/ (d3 < 0 /\ d4 < 0) THEN NoHit
        ELSE IF d1 = 0 /\ d2 = 0 THEN NoHit
        ELSE IF d1 - d2 = 0 THEN NoHit
        ELSE [hit |-> TRUE, fraction |-> Rat(d1, d1 - d2)]

MIN_CROSSING_INTERVAL_MS == 5000

MIN_SECTOR_CROSSING_INTERVAL_MS == 1000

\* The debounce test: crossingTime - lastCrossingTime >= minInterval
DebounceOff(crossingTime, lastCrossingTime, minInterval) == TRUE

Debounced(crossingTime, lastCrossingTime, minInterval) ==
    RatLeq(RatInt(minInterval), RatSub(crossingTime, lastCrossingTime))

\* The direction test: the first crossing is taken in any direction, a
\* later one only in the direction of the last accepted crossing.
AnyDirection(count, lastCrossingDirection, crossingDirection) == TRUE

SameDirection(count, lastCrossingDirection, crossingDirection) ==
    \/ count = 0
    \/ lastCrossingDirection = 0
    \/ crossingDirection = lastCrossingDirection

\* The body of detectLineCrossings' loop for the sample pair (i, i + 1),
\* 0-based as in the code.  st holds crossings, lastCrossingTime and
\* lastCrossingDirection.
CrossingStep(st, ss, i, lineA, lineB, c2, lineType, minInterval) ==
    LET s1 == ss[i + 1]
        s2 == ss[i + 2]
        p1 == projectToPlane(s1.lat, s1.lon, c2.lat, c2.lon)
        p2 == projectToPlane(s2.lat, s2.lon, c2.lat, c2.lon)
        side1 == sideOfLine(p1, lineA, lineB)
        side2 == sideOfLine(p2, lineA, lineB)
        r == segmentIntersection(p1, p2, lineA, lineB)
        fraction == r.fraction
        crossingTime == RatAdd(RatInt(s1.t), RatMul(fraction, RatInt(s2.t - s1.t)))
        crossingDirection == IF side2 > side1 THEN 1 ELSE -1
    IN  IF /\ r.hit /\ RatLeq(<<0, 1>>, fraction) /\ RatLeq(fraction, <<1, 1>>)
           /\ Debounced(crossingTime, st.lastCrossingTime, minInterval)
           /\ SameDirection(Len(st.crossings), st.lastCrossingDirection,
                            crossingDirection)
        THEN [crossings |-> Append(st.crossings,
                  [lineType |-> lineType, crossingTime |-> crossingTime,
                   sampleIndex |-> i, fraction |-> fraction,
                   direction |-> crossingDirection]),
              lastCrossingTime |-> crossingTime,
              lastCrossingDirection |-> crossingDirection]
        ELSE st

RECURSIVE DetectLoop(_, _, _, _, _, _, _, _)
DetectLoop(st, ss, i, lineA, lineB, c2, lineType, minInterval) ==
    IF i >= Len(ss) - 1 THEN st
    ELSE DetectLoop(CrossingStep(st, ss, i, lineA, lineB, c2, lineType, minInterval),
                    ss, i + 1, lineA, lineB, c2, lineType, minInterval)

detectLineCrossings(ss, lineA, lineB, c2, lineType, minInterval) ==
    DetectLoop([crossings |-> <<>>,
                lastCrossingTime |-> RatInt(-minInterval),
                lastCrossingDirection |-> 0],
               ss, 0, lineA, lineB, c2, lineType, minInterval).crossings

\* A course: the start/finish line and the two optional sector lines.
NoLine == [set |-> FALSE, a |-> [lat |-> 0, lon |-> 0], b |-> [lat |-> 0, lon |-> 0]]

LineOf(alat, alon, blat, blon) ==
    [set |-> TRUE, a |-> [lat |-> alat, lon |-> alon], b |-> [lat |-> blat, lon |-> blon]]

courseHasSectors(c) == c.sector2.set /\ c.sector3.set

\* An optional number: undefined, or defined with a value.
Undef == [def |-> FALSE, v |-> <<0, 1>>]

Def(v) == [def |-> TRUE, v |-> v]

NoSectors == [present |-> FALSE, s1 |-> Undef, s2 |-> Undef, s3 |-> Undef]

\* The first crossing after lo, whether or not it is before hi.
FindAfter(cs, lo, hi) ==
    LET idx == {k \in 1..Len(cs) : RatLess(lo, cs[k].crossingTime)}
    IN  IF idx = {} THEN [found |-> FALSE, crossingTime |-> <<0, 1>>]
        ELSE [found |-> TRUE,
              crossingTime |-> cs[CHOOSE k \in idx : \A j \in idx : k <= j].crossingTime]

\* Array.find: the first crossing with lo < crossingTime < hi, if any.
FindBetween(cs, lo, hi) ==
    LET idx == {k \in 1..Len(cs) :
                   RatLess(lo, cs[k].crossingTime) /\ RatLess(cs[k].crossingTime, hi)}
    IN  IF idx = {} THEN [found |-> FALSE, crossingTime |-> <<0, 1>>]
        ELSE [found |-> TRUE,
              crossingTime |-> cs[CHOOSE k \in idx : \A j \in idx : k <= j].crossingTime]

\* lapCalculation.ts lines 230..274: the sectors of the lap from start to end
SectorsOfLap(start, end, sector2Crossings, sector3Crossings) ==
    LET s2Crossing == FindBetween(sector2Crossings, start.crossingTime, end.crossingTime)
        s3Crossing == FindBetween(sector3Crossings,
                          IF s2Crossing.found THEN s2Crossing.crossingTime
                          ELSE start.crossingTime,
                          end.crossingTime)
    IN  IF /\ s2Crossing.found /\ s3Crossing.found
           /\ RatLess(s2Crossing.crossingTime, s3Crossing.crossingTime)
        THEN [present |-> TRUE,
              s1 |-> Def(RatSub(s2Crossing.crossingTime, start.crossingTime)),
              s2 |-> Def(RatSub(s3Crossing.crossingTime, s2Crossing.crossingTime)),
              s3 |-> Def(RatSub(end.crossingTime, s3Crossing.crossingTime))]
        ELSE IF s2Crossing.found /\ ~s3Crossing.found
        THEN [present |-> TRUE,
              s1 |-> Def(RatSub(s2Crossing.crossingTime, start.crossingTime)),
              s2 |-> Undef, s3 |-> Undef]
        ELSE [present |-> TRUE, s1 |-> Undef, s2 |-> Undef, s3 |-> Undef]

\* 1.0 mph is 447.04 mm/s: speedMph < 1.0
IsLowSpeed(sample) == sample.speed <= 447

MAX_GLITCH_SAMPLES == 3

\* No run is a glitch.
NeverGlitch(runLength) == FALSE

\* runLength <= MAX_GLITCH_SAMPLES
IsGlitchRun(runLength) == runLength <= MAX_GLITCH_SAMPLES

\* lapCalculation.ts lines 187..209: the scan for low-speed runs from sample
\* j (0-based) to the lap's last sample; runStart is -1 outside a run
RECURSIVE GlitchScan(_, _, _, _, _)
GlitchScan(ss, j, endIndex, runStart, glitchIndices) ==
    IF j <= endIndex /\ j < Len(ss)
    THEN LET isLowSpeed == IsLowSpeed(ss[j + 1])
         IN  IF isLowSpeed /\ runStart = -1
             THEN GlitchScan(ss, j + 1, endIndex, j, glitchIndices)
             ELSE IF ~isLowSpeed /\ runStart # -1
             THEN GlitchScan(ss, j + 1, endIndex, -1,
                      IF IsGlitchRun(j - runStart)
                      THEN glitchIndices \cup (runStart..(j - 1)) ELSE glitchIndices)
             ELSE GlitchScan(ss, j + 1, endIndex, runStart, glitchIndices)
    ELSE IF runStart # -1 /\ IsGlitchRun((endIndex + 1) - runStart)
    THEN glitchIndices \cup (runStart..Min2(endIndex, Len(ss) - 1))
    ELSE glitchIndices

\* lapCalculation.ts lines 181..228: the lap's speed extrema; indices are
\* 0-based as in the code
LapSpeeds(ss, start, end) ==
    LET window == start.sampleIndex..Min2(end.sampleIndex, Len(ss) - 1)
        glitchIndices == GlitchScan(ss, start.sampleIndex, end.sampleIndex, -1, {})
        kept == {ss[j + 1].speed : j \in window \ glitchIndices}
        maxSpeed == CHOOSE v \in {0} \cup {ss[j + 1].speed : j \in window} :
                        \A j \in window : ss[j + 1].speed <= v
    IN  [maxSpeed |-> maxSpeed,
         minSpeed |-> IF kept = {} THEN 0
                      ELSE CHOOSE v \in kept : \A w \in kept : v <= w]

\* lapNumber: i + 1 for the 0-based loop index; i here is 1-based
LapNumberZeroBased(i) == i - 1

LapNumberOf(i) == i

\* lapCalculation.ts lines 174..289: the lap between crossings i and i + 1
LapOf(ss, cr, i, hasSectors) ==
    LET start == cr.sf[i]
        end == cr.sf[i + 1]
        sp == LapSpeeds(ss, start, end)
    IN  [lapNumber |-> LapNumberOf(i),
         startTime |-> start.crossingTime,
         endTime |-> end.crossingTime,
         lapTimeMs |-> RatSub(end.crossingTime, start.crossingTime),
         maxSpeed |-> sp.maxSpeed,
         minSpeed |-> sp.minSpeed,
         startIndex |-> start.sampleIndex,
         endIndex |-> end.sampleIndex,
         sectors |-> IF hasSectors THEN SectorsOfLap(start, end, cr.s2, cr.s3)
                     ELSE NoSectors]

\* lapCalculation.ts lines 137..169: the crossings calculateLaps detects
LineCrossingsOf(ss, c) ==
    IF Len(ss) < 2 THEN NoCrossings
    ELSE
      LET c2 == [lat |-> c.startFinishA.lat + c.startFinishB.lat,
                 lon |-> c.startFinishA.lon + c.startFinishB.lon]
          Proj(pt) == projectToPlane(pt.lat, pt.lon, c2.lat, c2.lon)
          Detect(line, lineType, minInterval) ==
              detectLineCrossings(ss, Proj(line.a), Proj(line.b), c2, lineType, minInterval)
      IN  [sf |-> detectLineCrossings(ss, Proj(c.startFinishA), Proj(c.startFinishB),
                                      c2, "sf", MIN_CROSSING_INTERVAL_MS),
           s2 |-> IF courseHasSectors(c)
                  THEN Detect(c.sector2, "s2", MIN_SECTOR_CROSSING_INTERVAL_MS) ELSE <<>>,
           s3 |-> IF courseHasSectors(c)
                  THEN Detect(c.sector3, "s3", MIN_SECTOR_CROSSING_INTERVAL_MS) ELSE <<>>]

\* lapCalculation.ts lines 171..291: the laps between consecutive crossings
LapsBetween(ss, c, cr) ==
    [i \in 1..(Len(cr.sf) - 1) |-> LapOf(ss, cr, i, courseHasSectors(c))]

calculateLaps(ss, c) == LapsBetween(ss, c, LineCrossingsOf(ss, c))

RatMax(S) == CHOOSE x \in S : \A y \in S : RatLeq(y, x)

RatMin(S) == CHOOSE x \in S : \A y \in S : RatLeq(x, y)

HasAllSectors(lap) == lap.sectors.s1.def /\ lap.sectors.s2.def /\ lap.sectors.s3.def

\* lapCalculation.ts lines 317..351
calculateOptimalLap(ls) ==
    LET full == {k \in 1..Len(ls) : HasAllSectors(ls[k])}
    IN  IF full = {} THEN NoOptimal
        ELSE
          LET bestS1 == RatMin({ls[k].sectors.s1.v : k \in full})
              bestS2 == RatMin({ls[k].sectors.s2.v : k \in full})
              bestS3 == RatMin({ls[k].sectors.s3.v : k \in full})
              optimalTimeMs == RatAdd(RatAdd(bestS1, bestS2), bestS3)
              fastestLapMs == RatMin({ls[k].lapTimeMs : k \in 1..Len(ls)})
          IN  [set |-> TRUE, optimalTimeMs |-> optimalTimeMs,
               bestS1 |-> bestS1, bestS2 |-> bestS2, bestS3 |-> bestS3,
               deltaToFastest |-> RatSub(fastestLapMs, optimalTimeMs)]

(***************************************************************************)
(* The lap engine at work.  A kart drives between three corners of a       *)
(* triangle (positions on an integer grid of equal small steps of latitude *)
(* and longitude), one sample per corner, 1 s or 3 s apart.  The           *)
(* start/finish line cuts the edge V1-V2 in its middle, the sector-2 line  *)
(* the edge V2-V3 and the sector-3 line the edge V3-V1.                    *)
(*   pc = "drive": the stream is being recorded                            *)
(*   pc = "laps":  calculateLaps has run                                   *)
(*   pc = "done":  calculateOptimalLap has run                             *)
(***************************************************************************)
MaxSamples == 8

Corners == {[lat |-> 4, lon |-> 4], [lat |-> 4, lon |-> 12], [lat |-> 12, lon |-> 8]}

Intervals == {1000, 3000}

Courses ==
    LET sf == LineOf(2, 8, 6, 8)
        l2 == LineOf(8, 9, 8, 11)
        l3 == LineOf(8, 5, 8, 7)
        Mk(x, y) == [startFinishA |-> sf.a, startFinishB |-> sf.b, sector2 |-> x, sector3 |-> y]
    IN  {Mk(NoLine, NoLine), Mk(l2, NoLine), Mk(l2, l3)}

InitLap ==
    \E c \in Courses :
        /\ pc = "drive"
        /\ course = c
        /\ samples = <<[t |-> 0, lat |-> 4, lon |-> 4, speed |-> 10000, src |-> 1]>>
        /\ crossings = NoCrossings
        /\ laps = <<>>
        /\ optimal = NoOptimal
        /\ base = NoBase
        /\ result = "none"
        /\ dec = NoDec
        /\ IdleUbx
        /\ IdlePost
        /\ IdleApp

\* The recorder appends the next sample.
Drive ==
    /\ pc = "drive" /\ Len(samples) < MaxSamples
    /\ \E v \in Corners, dt \in Intervals :
          /\ v.lat # Last(samples).lat \/ v.lon # Last(samples).lon
          /\ samples' = Append(samples,
                 [t |-> Last(samples).t + dt, lat |-> v.lat, lon |-> v.lon,
                  speed |-> 10000, src |-> Len(samples) + 1])
    /\ UNCHANGED <<pc, base, result, dec, ubxVars, lapVars, appVars, postVars>>

CalculateLaps ==
    /\ pc \in {"drive", "shuttle"}
    /\ pc' = "laps"
    /\ LET cr == LineCrossingsOf(samples, course)
       IN  /\ crossings' = cr
           /\ laps' = LapsBetween(samples, course, cr)
    /\ UNCHANGED <<samples, base, result, dec, ubxVars, course, optimal, postVars, appVars>>

CalculateOptimalLap ==
    /\ pc = "laps"
    /\ pc' = "done"
    /\ optimal' = calculateOptimalLap(laps)
    /\ UNCHANGED <<samples, base, result, dec, ubxVars, course, crossings, laps, postVars, appVars>>

NextLap == Drive \/ CalculateLaps \/ CalculateOptimalLap

SpecLap == InitLap /\ [][NextLap]_vars

(***************************************************************************)
(* The lap engine on a stream with a faulty speed channel.  The kart       *)
(* shuttles between V1 and V2, 3 s a leg; every second leg crosses the     *)
(* start/finish line in the accepted direction, so a lap spans three       *)
(* samples.  The speed channel reports 0.2 m/s (below 1 mph), 10 m/s or    *)
(* 20 m/s.  On a second course the start/finish line is drawn through V2   *)
(* itself: the kart reaches the line at a sample point and turns back.     *)
(*   pc = "shuttle": the stream is being recorded                          *)
(***************************************************************************)
MaxShuttle == 9

ShuttleSpeeds == {200, 10000, 20000}

ShuttleCorner(n) == IF n % 2 = 0 THEN [lat |-> 4, lon |-> 4] ELSE [lat |-> 4, lon |-> 12]

TouchCourse ==
    [startFinishA |-> [lat |-> 2, lon |-> 12], startFinishB |-> [lat |-> 6, lon |-> 12],
     sector2 |-> NoLine, sector3 |-> NoLine]

InitSpd ==
    \E c \in {k \in Courses : ~k.sector2.set} \cup {TouchCourse}, v \in ShuttleSpeeds :
        /\ pc = "shuttle"
        /\ course = c
        /\ samples = <<[t |-> 0, lat |-> ShuttleCorner(0).lat, lon |-> ShuttleCorner(0).lon,
                        speed |-> v, src |-> 1]>>
        /\ crossings = NoCrossings
        /\ laps = <<>>
        /\ optimal = NoOptimal
        /\ base = NoBase
        /\ result = "none"
        /\ dec = NoDec
        /\ IdleUbx
        /\ IdlePost
        /\ IdleApp

\* The recorder appends the next sample.
Shuttle ==
    /\ pc = "shuttle" /\ Len(samples) < MaxShuttle
    /\ \E v \in ShuttleSpeeds :
          samples' = Append(samples,
              [t |-> Last(samples).t + 3000,
               lat |-> ShuttleCorner(Len(samples)).lat,
               lon |-> ShuttleCorner(Len(samples)).lon,
               speed |-> v, src |-> Len(samples) + 1])
    /\ UNCHANGED <<pc, base, result, dec, ubxVars, lapVars, appVars, postVars>>

NextSpd == Shuttle \/ CalculateLaps \/ CalculateOptimalLap

SpecSpd == InitSpd /\ [][NextSpd]_vars

(***************************************************************************)
(* Claims about the lap engine.                                            *)
(***************************************************************************)
LapsComputed == pc \in {"laps", "done"}

\* C6: consecutive laps share their boundary (lap[n].endTime =
\* lap[n+1].startTime), lap numbers run 1, 2, 3, ..., and there is one lap
\* fewer than accepted start/finish crossings (none below two crossings).
C6_LapsContiguous ==
    LapsComputed =>
        /\ Len(laps) = IF Len(crossings.sf) < 2 THEN 0 ELSE Len(crossings.sf) - 1
        /\ Len(laps) > 0 => laps[1].lapNumber = 1
        /\ \A n \in 1..(Len(laps) - 1) :
              /\ laps[n].endTime = laps[n + 1].startTime
              /\ laps[n].lapNumber + 1 = laps[n + 1].lapNumber

\* C6's case: a stream with at least three accepted crossings, two laps.
C6_Witness == LapsComputed /\ Len(laps) >= 2 /\ Len(crossings.sf) = Len(laps) + 1

DefinedSectors(lap) ==
    Cardinality({k \in {"s1", "s2", "s3"} : lap.sectors[k].def})

\* C7: a lap has either no sector time or all three of s1, s2, s3 (never a
\* partial set), and has sector times only on a course with both sector lines.
C7_SectorsAllOrNone ==
    LapsComputed =>
        \A n \in 1..Len(laps) :
            /\ DefinedSectors(laps[n]) \in {0, 3}
            /\ DefinedSectors(laps[n]) > 0 => courseHasSectors(course)

\* C8: the optimal time is bestS1 + bestS2 + bestS3 and does not exceed the
\* lap time of any lap that has all three sector times.
C8_OptimalWithinFullLaps ==
    (pc = "done" /\ optimal.set) =>
        /\ optimal.optimalTimeMs
              = RatAdd(RatAdd(optimal.bestS1, optimal.bestS2), optimal.bestS3)
        /\ \A n \in 1..Len(laps) :
              HasAllSectors(laps[n]) => RatLeq(optimal.optimalTimeMs, laps[n].lapTimeMs)

\* C8's case: two laps with all sectors whose best sectors come from
\* different laps, so that the optimal time is below both lap times.
C8_Witness ==
    /\ pc = "done" /\ optimal.set
    /\ Cardinality({n \in 1..Len(laps) : HasAllSectors(laps[n])}) >= 2
    /\ \A n \in 1..Len(laps) : RatLess(optimal.optimalTimeMs, laps[n].lapTimeMs)

\* C9: deltaToFastest is the smallest lap time minus the optimal time and is
\* not negative, also when some laps have no complete sector times.
C9_DeltaNonNegative ==
    (pc = "done" /\ optimal.set) =>
        /\ \A n \in 1..Len(laps) :
              RatLeq(RatAdd(optimal.deltaToFastest, optimal.optimalTimeMs),
                     laps[n].lapTimeMs)
        /\ RatLeq(<<0, 1>>, optimal.deltaToFastest)

AtLeastApart(cs, minInterval) ==
    \A k \in 1..(Len(cs) - 1) :
        RatLeq(RatInt(minInterval), RatSub(cs[k + 1].crossingTime, cs[k].crossingTime))

\* C10: consecutive accepted crossings of the start/finish line are at least
\* 5000 ms apart, those of a sector line at least 1000 ms, and every lap
\* lasts at least 5000 ms.
C10_Debounce ==
    LapsComputed =>
        /\ AtLeastApart(crossings.sf, MIN_CROSSING_INTERVAL_MS)
        /\ AtLeastApart(crossings.s2, MIN_SECTOR_CROSSING_INTERVAL_MS)
        /\ AtLeastApart(crossings.s3, MIN_SECTOR_CROSSING_INTERVAL_MS)
        /\ \A n \in 1..Len(laps) :
              RatLeq(RatInt(MIN_CROSSING_INTERVAL_MS), laps[n].lapTimeMs)

\* C10's case: the kart went round the triangle in 4 s, crossing the
\* start/finish line twice in the same direction 3 s apart; the second
\* crossing was not accepted, while both sector lines were crossed.
C10_Witness ==
    /\ LapsComputed
    /\ Len(samples) = 5 /\ samples[5].t = 4000
    /\ samples[2].lon = 12 /\ samples[3].lat = 12 /\ samples[4].lon = 4 /\ samples[5].lon = 12
    /\ Len(crossings.sf) = 1
    /\ Len(crossings.s2) = 1 /\ Len(crossings.s3) = 1

\* The geometric crossing of a timing line by the sample pair (i, i + 1),
\* 0-based: whether the path meets the line, when, and in which direction.
GeometricCrossing(ss, i, line, c) ==
    LET c2 == [lat |-> c.startFinishA.lat + c.startFinishB.lat,
               lon |-> c.startFinishA.lon + c.startFinishB.lon]
        Proj(pt) == projectToPlane(pt.lat, pt.lon, c2.lat, c2.lon)
        p1 == Proj(ss[i + 1])
        p2 == Proj(ss[i + 2])
        r == segmentIntersection(p1, p2, Proj(line.a), Proj(line.b))
    IN  [hit |-> r.hit /\ RatLeq(<<0, 1>>, r.fraction) /\ RatLeq(r.fraction, <<1, 1>>),
         crossingTime |-> RatAdd(RatInt(ss[i + 1].t),
                                 RatMul(r.fraction, RatInt(ss[i + 2].t - ss[i + 1].t))),
         direction |-> IF sideOfLine(p2, Proj(line.a), Proj(line.b))
                            > sideOfLine(p1, Proj(line.a), Proj(line.b))
                       THEN 1 ELSE -1]

\* The accepted crossings cs of one line all have the direction of the first,
\* and a later geometric crossing in that direction which comes at least
\* minInterval after the last crossing accepted before it is itself accepted.
OneDirection(cs, line, minInterval) ==
    /\ \A k \in 1..Len(cs) : cs[k].direction = cs[1].direction
    /\ \A k \in 1..Len(cs) :
          LET g == GeometricCrossing(samples, cs[k].sampleIndex, line, course)
          IN  g.hit /\ g.direction = cs[k].direction /\ g.crossingTime = cs[k].crossingTime
    /\ Len(cs) > 0 =>
          \A i \in (cs[1].sampleIndex + 1)..(Len(samples) - 2) :
              LET g == GeometricCrossing(samples, i, line, course)
                  before == {k \in 1..Len(cs) : cs[k].sampleIndex < i}
                  prev == cs[CHOOSE k \in before : \A j \in before : j <= k]
              IN  (/\ g.hit /\ g.direction = cs[1].direction
                   /\ RatLeq(RatInt(minInterval),
                             RatSub(g.crossingTime, prev.crossingTime)))
                  => \E k \in 1..Len(cs) : cs[k].sampleIndex = i

\* C11: all crossings accepted for one timing line have the direction of the
\* first accepted crossing; a geometric crossing in the opposite direction is
\* never accepted and does not move the debounce reference time (the next
\* crossing in the lap direction is measured against the last accepted one).
C11_OneDirection ==
    pc = "laps" =>
        /\ OneDirection(crossings.sf, [a |-> course.startFinishA, b |-> course.startFinishB],
                        MIN_CROSSING_INTERVAL_MS)
        /\ OneDirection(crossings.s2, course.sector2, MIN_SECTOR_CROSSING_INTERVAL_MS)
        /\ OneDirection(crossings.s3, course.sector3, MIN_SECTOR_CROSSING_INTERVAL_MS)

\* C11's case: the kart crossed the start/finish line, came back over it the
\* other way less than 5000 ms before crossing it again in the lap direction;
\* the crossing on the way back was not accepted and the third one was.
C11_Witness ==
    /\ LapsComputed
    /\ Len(samples) >= 4
    /\ samples[2].lon = 12 /\ samples[2].lat = 4
    /\ samples[3].lon = 4 /\ samples[4].lon = 12 /\ samples[4].lat = 4
    /\ samples[2].t = 3000 /\ samples[3].t = 6000 /\ samples[4].t = 9000
    /\ Len(crossings.sf) >= 2
    /\ crossings.sf[1].sampleIndex = 0 /\ crossings.sf[2].sampleIndex = 2

\* The low-speed samples (1-based positions) that form an unbroken run with
\* sample j inside the positions lo..hi.
LowRun(j, lo, hi) ==
    {k \in lo..hi : \A m \in Min2(j, k)..Max2(j, k) : IsLowSpeed(samples[m])}

\* The lap's extrema when the samples of `excluded` are left out of the
\* minimum: the minimum of the rest (0 if nothing is left) and the maximum
\* of all.
SpeedsWithout(lap, excluded) ==
    LET window == (lap.startIndex + 1)..(lap.endIndex + 1)
        kept == {samples[j].speed : j \in window \ excluded}
    IN  /\ \A j \in window : samples[j].speed <= lap.maxSpeed
        /\ \E j \in window : samples[j].speed = lap.maxSpeed
        /\ IF kept = {} THEN lap.minSpeed = 0
           ELSE lap.minSpeed \in kept /\ \A v \in kept : lap.minSpeed <= v

SidesAt(i) ==
    LET c2 == [lat |-> course.startFinishA.lat + course.startFinishB.lat,
               lon |-> course.startFinishA.lon + course.startFinishB.lon]
        Proj(pt) == projectToPlane(pt.lat, pt.lon, c2.lat, c2.lon)
        a == Proj(course.startFinishA)
        b == Proj(course.startFinishB)
    IN  <<sideOfLine(Proj(samples[i + 1]), a, b), sideOfLine(Proj(samples[i + 2]), a, b)>>

\* C27: a start/finish crossing is reported for a pair of samples only if
\* the two lie strictly on opposite sides of the line; a path that reaches
\* the line at a sample and goes back gives no crossing and no lap.
C27_StrictStraddle ==
    pc = "laps" =>
        \A k \in 1..Len(crossings.sf) :
            LET sides == SidesAt(crossings.sf[k].sampleIndex)
            IN  \/ sides[1] < 0 /\ sides[2] > 0
                \/ sides[1] > 0 /\ sides[2] < 0

\* C26: in a lap whose s1, s2 and s3 are all defined, s1 ends at a sector-2
\* crossing and s2 at a sector-3 crossing, the first strictly before the
\* second and both strictly between the lap's start and end; the three
\* sector times are positive and add up to the lap time.
C26_SectorsInOrder ==
    pc = "laps" =>
        \A i \in 1..Len(laps) :
            HasAllSectors(laps[i]) =>
                LET lap == laps[i]
                    t2 == RatAdd(lap.startTime, lap.sectors.s1.v)
                    t3 == RatAdd(t2, lap.sectors.s2.v)
                IN  /\ \E k \in 1..Len(crossings.s2) : crossings.s2[k].crossingTime = t2
                    /\ \E k \in 1..Len(crossings.s3) : crossings.s3[k].crossingTime = t3
                    /\ RatLess(lap.startTime, t2) /\ RatLess(t2, t3)
                    /\ RatLess(t3, lap.endTime)
                    /\ RatLess(RatInt(0), lap.sectors.s1.v)
                    /\ RatLess(RatInt(0), lap.sectors.s2.v)
                    /\ RatLess(RatInt(0), lap.sectors.s3.v)
                    /\ RatAdd(RatAdd(lap.sectors.s1.v, lap.sectors.s2.v), lap.sectors.s3.v)
                          = lap.lapTimeMs

\* C26's case: two laps, the first with all three sectors and the second
\* without a sector-3 time.
C26_Witness ==
    /\ pc = "laps" /\ Len(laps) >= 2
    /\ HasAllSectors(laps[1])
    /\ ~laps[2].sectors.s3.def

(***************************************************************************)
(* The speed-event detector, speedEvents.ts.  Speeds are integers in units *)
(* of 0.001 mph; a smoothed speed is a mean over 1 to 5 samples and is     *)
(* kept exactly, as 60 times the mean (an integer).                        *)
(***************************************************************************)
MPH == 1000

SMOOTH == 60

\* 0.01 mph in units of 1/60000 mph: the dead-band of the derivative's sign
DEAD_BAND == 600

\* smoothSpeeds: the centered moving average, clipped at the ends
smoothSpeeds(ss, windowSize) ==
    LET halfWindow == windowSize \div 2
        n == Len(ss)
        Mean(i) ==
            LET lo == Max2(1, i - halfWindow)
                hi == Min2(n, i + halfWindow)
                RECURSIVE Sum(_)
                Sum(j) == IF j > hi THEN 0 ELSE ss[j].speedMph + Sum(j + 1)
            IN  (Sum(lo) * SMOOTH) \div (hi - lo + 1)
    IN  [i \in 1..n |-> Mean(i)]

\* dv > 0.01 ? 'pos' : dv < -0.01 ? 'neg' : 'zero'
SignOf(dv) ==
    IF dv > DEAD_BAND THEN "pos" ELSE IF dv < -DEAD_BAND THEN "neg" ELSE "zero"

\* Math.round of a smoothed speed, in whole mph
RoundMph(v) == (v + (MPH * SMOOTH) \div 2) \div (MPH * SMOOTH)

\* speedEvents.ts lines 88..99: the debounce loop from j (0-based) on
RECURSIVE ConfirmLoop(_, _, _, _, _)
ConfirmLoop(sm, j, stop, lastDerivSign, signChangeCount) ==
    IF j >= stop THEN [confirmed |-> TRUE, signChangeCount |-> signChangeCount]
    ELSE LET checkSign == SignOf(sm[j + 1] - sm[j])
         IN  IF checkSign = "zero"
             THEN ConfirmLoop(sm, j + 1, stop, lastDerivSign, signChangeCount)
             ELSE IF checkSign = lastDerivSign
             THEN [confirmed |-> FALSE, signChangeCount |-> signChangeCount]
             ELSE ConfirmLoop(sm, j + 1, stop, lastDerivSign, signChangeCount + 1)

\* isAlternating
AlwaysAlternating(lastExtremumType, candidateType) == TRUE

IsAlternating(lastExtremumType, candidateType) ==
    lastExtremumType = "null" \/ lastExtremumType # candidateType

\* The swing test left out.
AnySwing(lastExtremumType, swing, minSwing) == TRUE

\* speedEvents.ts lines 108..114: passesSwing
PassesSwing(lastExtremumType, swing, minSwing) ==
    lastExtremumType = "null" \/ swing >= minSwing

\* speedEvents.ts lines 72..160: one iteration of the main loop, for the
\* 0-based index e.i.  Gives the events array and the locals afterwards.
EventStep(ss, ev, e) ==
    LET sm == e.smoothed
        i == e.i
        dv == sm[i + 1] - sm[i]
        currentSign == SignOf(dv)
        candidateType == IF e.lastDerivSign = "pos" THEN "peak" ELSE "valley"
        candidateIndex == i - 1
        candidateSpeed == sm[candidateIndex + 1]
        c == ConfirmLoop(sm, i, Min2(i + e.debounceCount, Len(sm)), e.lastDerivSign, 1)
        sample == ss[candidateIndex + 1]
        currentTime == sample.t
        passesSwing ==
            PassesSwing(e.lastExtremumType, Abs(candidateSpeed - e.lastExtremumSpeed),
                        e.minSwing * MPH * SMOOTH)
        isAlternating == IsAlternating(e.lastExtremumType, candidateType)
        event == [type |-> candidateType, speed |-> RoundMph(candidateSpeed),
                  lat |-> sample.lat, lon |-> sample.lon,
                  index |-> candidateIndex, time |-> currentTime]
        shouldReplace ==
            IF candidateType = "peak"
            THEN candidateSpeed > Last(ev).speed * MPH * SMOOTH
            ELSE candidateSpeed < Last(ev).speed * MPH * SMOOTH
        next == [e EXCEPT !.i = i + 1,
                          !.lastDerivSign = IF currentSign # "zero" THEN currentSign ELSE @]
        tooClose == /\ e.lastExtremumTimeSet
                    /\ currentTime - e.lastExtremumTime < e.minSeparationMs
    IN  IF ~(currentSign # "zero" /\ e.lastDerivSign # "zero"
             /\ currentSign # e.lastDerivSign)
        THEN [events |-> ev, evt |-> next]
        ELSE IF ~(c.confirmed /\ c.signChangeCount >= e.debounceCount)
        THEN [events |-> ev, evt |-> next]
        ELSE IF tooClose
        THEN [events |-> ev, evt |-> next]
        ELSE IF passesSwing /\ isAlternating
        THEN [events |-> Append(ev, event),
              evt |-> [next EXCEPT !.lastExtremumType = candidateType,
                                   !.lastExtremumSpeed = candidateSpeed,
                                   !.lastExtremumTimeSet = TRUE,
                                   !.lastExtremumTime = currentTime]]
        ELSE IF passesSwing /\ ~isAlternating /\ Len(ev) > 0 /\ shouldReplace
        THEN [events |-> [ev EXCEPT ![Len(ev)] = event],
              evt |-> [next EXCEPT !.lastExtremumSpeed = candidateSpeed,
                                   !.lastExtremumTimeSet = TRUE,
                                   !.lastExtremumTime = currentTime]]
        ELSE [events |-> ev, evt |-> next]

(***************************************************************************)
(* The detector at work on a recorded speed trace, two samples a second.   *)
(*   pc = "trace":   the trace is being recorded                           *)
(*   pc = "events":  findSpeedEvents is in its main loop                   *)
(*   pc = "evdone":  findSpeedEvents has returned                          *)
(***************************************************************************)
MaxTrace == 6

TraceSpeeds == {10 * MPH, 20 * MPH, 20 * MPH + 5, 25 * MPH}

EventOptions ==
    [smoothingWindow : {1, 3}, minSwing : {3}, minSeparationMs : {0, 1000},
     debounceCount : {1, 2}]

\* A second kind of trace, 2.5 samples a second and longer: the speed changes
\* with every sample, and the detector runs on the raw series with a
\* one-delta debounce.
MaxLively == 9

LivelySpeeds == {10 * MPH, 15 * MPH, 20 * MPH + 200, 20 * MPH + 400}

LivelyOptions ==
    [smoothingWindow : {1}, minSwing : {0, 3}, minSeparationMs : {1000},
     debounceCount : {1}]

TraceIntervals == {400, 500}

Lively(interval) == interval = 400

TraceLimit(interval) == IF Lively(interval) THEN MaxLively ELSE MaxTrace

SpeedsOf(interval) == IF Lively(interval) THEN LivelySpeeds ELSE TraceSpeeds

OptionsOf(interval) == IF Lively(interval) THEN LivelyOptions ELSE EventOptions

InitEvt ==
    /\ pc = "trace"
    /\ samples = <<>>
    /\ events = <<>>
    /\ disp = NoDisp
    /\ \E dt \in TraceIntervals : evt = [NoEvt EXCEPT !.interval = dt]
    /\ base = NoBase
    /\ result = "none"
    /\ dec = NoDec
    /\ IdleUbx
    /\ IdleLap
    /\ IdleApp

\* The recorder appends the next sample.
Trace ==
    /\ pc = "trace" /\ Len(samples) < TraceLimit(evt.interval)
    /\ \E v \in SpeedsOf(evt.interval) :
          /\ (Lively(evt.interval) /\ Len(samples) > 0) => v # Last(samples).speedMph
          /\ samples' = Append(samples,
                [t |-> Len(samples) * evt.interval, lat |-> 450000000 + Len(samples),
                 lon |-> 99967488, speedMph |-> v])
    /\ UNCHANGED <<pc, base, result, dec, ubxVars, lapVars, appVars, postVars>>

\* speedEvents.ts lines 51..57: too short a trace gives no events
FindSpeedEventsShort ==
    /\ pc = "trace"
    /\ \E o \in OptionsOf(evt.interval) :
          /\ Len(samples) < o.smoothingWindow + o.debounceCount
          /\ evt' = [NoEvt EXCEPT !.interval = evt.interval,
                                  !.smoothingWindow = o.smoothingWindow,
                                  !.minSwing = o.minSwing,
                                  !.minSeparationMs = o.minSeparationMs,
                                  !.debounceCount = o.debounceCount]
    /\ events' = <<>>
    /\ pc' = "evdone"
    /\ UNCHANGED <<samples, base, result, dec, ubxVars, lapVars, appVars, disp>>

\* speedEvents.ts lines 59..71: smoothing and the locals before the loop
FindSpeedEventsStart ==
    /\ pc = "trace"
    /\ \E o \in OptionsOf(evt.interval) :
          /\ Len(samples) >= o.smoothingWindow + o.debounceCount
          /\ evt' = [NoEvt EXCEPT !.interval = evt.interval,
                                  !.i = 1,
                                  !.smoothed = smoothSpeeds(samples, o.smoothingWindow),
                                  !.smoothingWindow = o.smoothingWindow,
                                  !.minSwing = o.minSwing,
                                  !.minSeparationMs = o.minSeparationMs,
                                  !.debounceCount = o.debounceCount]
    /\ events' = <<>>
    /\ pc' = "events"
    /\ UNCHANGED <<samples, base, result, dec, ubxVars, lapVars, appVars, disp>>

FindSpeedEventsStep ==
    /\ pc = "events" /\ evt.i < Len(evt.smoothed)
    /\ LET r == EventStep(samples, events, evt)
       IN  /\ events' = r.events
           /\ evt' = r.evt
    /\ UNCHANGED <<pc, samples, base, result, dec, ubxVars, lapVars, appVars, disp>>

FindSpeedEventsReturn ==
    /\ pc = "events" /\ evt.i >= Len(evt.smoothed)
    /\ pc' = "evdone"
    /\ UNCHANGED <<samples, base, result, dec, ubxVars, lapVars, appVars, postVars>>

NextEvt ==
    \/ Trace
    \/ FindSpeedEventsShort
    \/ FindSpeedEventsStart
    \/ FindSpeedEventsStep
    \/ FindSpeedEventsReturn

SpecEvt == InitEvt /\ [][NextEvt]_vars

\* C12: no two consecutive events of findSpeedEvents have the same type, at
\* every point of the scan and in the returned list; an iteration that meets a
\* confirmed candidate of the last event's type leaves the list's length as it
\* is (it replaces the last event or drops the candidate), and each
\* iteration adds at most one event.
C12_EventsAlternate ==
    /\ \A k \in 1..(Len(events) - 1) : events[k].type # events[k + 1].type
    /\ (pc = "events" /\ evt.i < Len(evt.smoothed)) =>
          LET r == EventStep(samples, events, evt)
          IN  /\ Len(r.events) <= Len(events) + 1
              /\ (Len(events) > 0 /\ Len(r.events) > 0
                     /\ Last(r.events) # Last(events)
                     /\ Last(r.events).type = Last(events).type)
                  => Len(r.events) = Len(events)

\* C12's case: a peak was replaced in place by a later, higher peak (the
\* valley between them was not emitted).
C12_Witness ==
    /\ pc = "evdone"
    /\ Len(events) = 1 /\ events[1].type = "peak" /\ events[1].index = 3
    /\ events[1].speed = 25

\* The iteration about to run meets a sign flip (speedEvents.ts line 76).
FlipAt(e) ==
    /\ pc = "events" /\ e.i < Len(e.smoothed)
    /\ SignOf(e.smoothed[e.i + 1] - e.smoothed[e.i]) # "zero"
    /\ e.lastDerivSign # "zero"
    /\ SignOf(e.smoothed[e.i + 1] - e.smoothed[e.i]) # e.lastDerivSign

\* ... and the candidate passes the test of line 99.
ConfirmedAt(e) ==
    /\ FlipAt(e)
    /\ LET c == ConfirmLoop(e.smoothed, e.i, Min2(e.i + e.debounceCount, Len(e.smoothed)),
                            e.lastDerivSign, 1)
       IN  c.confirmed /\ c.signChangeCount >= e.debounceCount

\* The number of deltas that carry the new sign from delta j (0-based) on,
\* up to the first delta of the old sign or the end of the series; deltas
\* inside the dead-band are passed over.
RECURSIVE NewSignDeltas(_, _, _)
NewSignDeltas(sm, j, oldSign) ==
    IF j >= Len(sm) THEN 0
    ELSE LET sign == SignOf(sm[j + 1] - sm[j])
         IN  IF sign = "zero" THEN NewSignDeltas(sm, j + 1, oldSign)
             ELSE IF sign = oldSign THEN 0
             ELSE 1 + NewSignDeltas(sm, j + 1, oldSign)

\* C22: a candidate is confirmed only if at least debounceCount sign-bearing
\* deltas, starting with the delta of the flip, carry the new sign; with
\* debounceCount 2 a flip at the last delta, or one followed by dead-band
\* deltas only, is not confirmed.
C22_DebounceCounted ==
    ConfirmedAt(evt) =>
        NewSignDeltas(evt.smoothed, evt.i, evt.lastDerivSign) >= evt.debounceCount

\* The smoothed speed at the sample an event marks.
SmoothedAt(event) == evt.smoothed[event.index + 1]

\* The iteration about to run overwrites the last event in place.
ReplacesLast ==
    /\ pc = "events" /\ evt.i < Len(evt.smoothed)
    /\ Len(events) > 0
    /\ LET r == EventStep(samples, events, evt)
       IN  Len(r.events) = Len(events) /\ r.events # events

\* C23: whatever the options (minSwing = 0 too), the last event is
\* overwritten only by a candidate of its own type whose smoothed speed is
\* strictly more extreme than the smoothed speed of the event it replaces:
\* above it for a peak, below it for a valley.
C23_ReplaceOnlyMoreExtreme ==
    ReplacesLast =>
        LET old == Last(events)
            new == Last(EventStep(samples, events, evt).events)
        IN  /\ new.type = old.type
            /\ IF old.type = "peak"
               THEN SmoothedAt(new) > SmoothedAt(old)
               ELSE SmoothedAt(new) < SmoothedAt(old)

Inputs ==
    {in \in [isBuffer : BOOLEAN, sync : BOOLEAN, marker : {"none", "early", "late"},
             headers : BOOLEAN, metadata : BOOLEAN, channels : BOOLEAN] :
        in.sync => in.isBuffer}

\* speedBounds.ts lines 435..446
isUbxFormat(in) == in.sync

\* part_000 lines 16..23
isVboFormat(in) == in.marker = "early"

\* part_001 lines 34..53
isAlfanoFormat(in) ==
    IF in.marker # "none" THEN FALSE ELSE in.headers \/ in.metadata

\* aimParser.ts lines 101..134
isAimFormat(in) == in.channels

\* The text chain with the two CSV sniffers in the other order.
DispatchTextAimFirst(in, sniffed) ==
    IF isVboFormat(in)
    THEN [sniffed |-> sniffed \o <<"isVboFormat">>, called |-> <<"parseVboFile">>]
    ELSE IF isAimFormat(in)
    THEN [sniffed |-> sniffed \o <<"isVboFormat", "isAimFormat">>,
          called |-> <<"parseAimFile">>]
    ELSE IF isAlfanoFormat(in)
    THEN [sniffed |-> sniffed \o <<"isVboFormat", "isAimFormat", "isAlfanoFormat">>,
          called |-> <<"parseAlfanoFile">>]
    ELSE [sniffed |-> sniffed \o <<"isVboFormat", "isAimFormat", "isAlfanoFormat">>,
          called |-> <<"parseDatalog">>]

\* The chain of tests on the text: VBO, Alfano, AiM, else NMEA
DispatchText(in, sniffed) ==
    IF isVboFormat(in)
    THEN [sniffed |-> sniffed \o <<"isVboFormat">>, called |-> <<"parseVboFile">>]
    ELSE IF isAlfanoFormat(in)
    THEN [sniffed |-> sniffed \o <<"isVboFormat", "isAlfanoFormat">>,
          called |-> <<"parseAlfanoFile">>]
    ELSE IF isAimFormat(in)
    THEN [sniffed |-> sniffed \o <<"isVboFormat", "isAlfanoFormat", "isAimFormat">>,
          called |-> <<"parseAimFile">>]
    ELSE [sniffed |-> sniffed \o <<"isVboFormat", "isAlfanoFormat", "isAimFormat">>,
          called |-> <<"parseDatalog">>]

\* The buffer first goes through isUbxFormat
DispatchBuffer(in) ==
    IF isUbxFormat(in)
    THEN [sniffed |-> <<"isUbxFormat">>, called |-> <<"parseUbxFile">>]
    ELSE DispatchText(in, <<"isUbxFormat">>)

InitDisp ==
    \E in \in Inputs, e \in {"parseDatalogFile", "parseDatalogContent"} :
        /\ e = "parseDatalogFile" => in.isBuffer
        /\ pc = "dispatch"
        /\ disp = [NoDisp EXCEPT !.entry = e, !.input = in]
        /\ IdleEvt
        /\ samples = <<>>
        /\ base = NoBase
        /\ result = "none"
        /\ dec = NoDec
        /\ IdleUbx
        /\ IdleLap
        /\ IdleApp

\* The dispatcher returns what the decoder returns and throws what it throws.
Dispatched(d) ==
    \E o \in {"ok", "error"} :
        /\ disp' = [disp EXCEPT !.sniffed = d.sniffed, !.called = d.called,
                                !.outcome = o]
        /\ result' = o
        /\ pc' = "dispatched"
        /\ UNCHANGED <<samples, base, dec, ubxVars, lapVars, appVars, events, evt>>

\* datalogParser.ts lines 76..104
ParseDatalogFile ==
    /\ pc = "dispatch" /\ disp.entry = "parseDatalogFile"
    /\ Dispatched(DispatchBuffer(disp.input))

\* datalogParser.ts lines 109..147
ParseDatalogContent ==
    /\ pc = "dispatch" /\ disp.entry = "parseDatalogContent"
    /\ Dispatched(IF disp.input.isBuffer THEN DispatchBuffer(disp.input)
                  ELSE DispatchText(disp.input, <<>>))

NextDisp == ParseDatalogFile \/ ParseDatalogContent

SpecDisp == InitDisp /\ [][NextDisp]_vars

\* The fixed order of the sniffers and the decoder each stands for.
SnifferOrder == <<"isUbxFormat", "isVboFormat", "isAlfanoFormat", "isAimFormat">>

DecoderOf(sniffer) ==
    CASE sniffer = "isUbxFormat" -> "parseUbxFile"
      [] sniffer = "isVboFormat" -> "parseVboFile"
      [] sniffer = "isAlfanoFormat" -> "parseAlfanoFile"
      [] sniffer = "isAimFormat" -> "parseAimFile"

SnifferMatches(sniffer, in) ==
    CASE sniffer = "isUbxFormat" -> in.isBuffer /\ isUbxFormat(in)
      [] sniffer = "isVboFormat" -> isVboFormat(in)
      [] sniffer = "isAlfanoFormat" -> isAlfanoFormat(in)
      [] sniffer = "isAimFormat" -> isAimFormat(in)

\* C18: the dispatcher evaluates the sniffers in the order binary, sectioned
\* text, metadata-preamble CSV, channel-header CSV (the binary one only on a
\* byte buffer), stops at the first that matches and calls its decoder, or
\* the NMEA decoder when none matches; it calls one decoder only and its
\* result is that decoder's result.
C18_FirstMatchWins ==
    pc = "dispatched" =>
        LET in == disp.input
            matching == {k \in 1..4 : SnifferMatches(SnifferOrder[k], in)}
            first == IF matching = {} THEN 5
                     ELSE CHOOSE k \in matching : \A j \in matching : k <= j
            asked == [k \in 1..Len(disp.sniffed) |->
                         CHOOSE j \in 1..4 : SnifferOrder[j] = disp.sniffed[k]]
        IN  /\ Len(disp.called) = 1
            /\ disp.called[1] = IF first = 5 THEN "parseDatalog"
                                ELSE DecoderOf(SnifferOrder[first])
            /\ \A k \in 1..(Len(asked) - 1) : asked[k] < asked[k + 1]
            /\ \A k \in 1..Len(asked) : asked[k] <= first
            /\ \A j \in 1..4 :
                  (j <= first /\ (j > 1 \/ in.isBuffer))
                      => \E k \in 1..Len(asked) : asked[k] = j
            /\ result = disp.outcome

\* C18's case: a text that both CSV sniffers match goes to the
\* metadata-preamble CSV decoder, and the channel-header sniffer is not asked.
C18_Witness ==
    /\ pc = "dispatched"
    /\ disp.input.isBuffer /\ ~disp.input.sync /\ disp.input.marker = "none"
    /\ disp.input.headers /\ disp.input.channels
    /\ disp.called = <<"parseAlfanoFile">>
    /\ disp.sniffed = <<"isUbxFormat", "isVboFormat", "isAlfanoFormat">>
    /\ result = "error"

(***************************************************************************)
(* The Index page.  Its data, selection and laps states are set by four    *)
(* handlers: a file was decoded (handleDataLoaded), the bundled sample was *)
(* asked for (handleLoadSample, which awaits the track list and the file), *)
(* 'New File' was clicked, and the track editor reported a selection       *)
(* (handleSelectionChange).  The streams are drives round the triangle of  *)
(* the lap engine; the courses are the lap engine's.                       *)
(*   pc = "page": the page is mounted                                      *)
(***************************************************************************)
CornerSeq == <<[lat |-> 4, lon |-> 4], [lat |-> 4, lon |-> 12], [lat |-> 12, lon |-> 8]>>

StreamOf(path, dt) ==
    [k \in 1..Len(path) |->
        [t |-> (k - 1) * dt, lat |-> CornerSeq[path[k]].lat,
         lon |-> CornerSeq[path[k]].lon, speed |-> 10000, src |-> k]]

Paths == {<<1, 2, 3, 1, 2>>, <<1, 2, 3, 1, 2, 3, 1, 2>>, <<1, 2, 1, 2, 1, 2>>, <<1, 3>>}

\* The streams a decoded file may hold.
FileStreams == {StreamOf(path, dt) : path \in Paths, dt \in Intervals}

\* The stream of /samples/okc-tillotson-plain.nmea.
SampleStream == StreamOf(<<1, 2, 3, 1, 2, 3, 1, 2, 3, 1, 2>>, 3000)

SelectionOf(trackName, courseName, c) ==
    [set |-> TRUE, trackName |-> trackName, courseName |-> courseName, course |-> c]

\* The first course of the track "Orlando Kart Center", as loadTracks may
\* return it: the default one or a user's override of it.
OkcSelections == {SelectionOf("Orlando Kart Center", "Full", c) : c \in Courses}

Selections == OkcSelections \cup {SelectionOf("Club", "Touch", TouchCourse)}

InitPage ==
    /\ pc = "page"
    /\ page = NoPage
    /\ store = NoStore
    /\ samples = <<>>
    /\ base = NoBase
    /\ result = "none"
    /\ dec = NoDec
    /\ IdleUbx
    /\ IdleLap
    /\ IdlePost

\* Index.tsx lines 225..238
handleDataLoaded ==
    /\ pc = "page"
    /\ \E parsedData \in FileStreams :
          page' = [page EXCEPT
                     !.data = [set |-> TRUE, samples |-> parsedData],
                     !.laps = IF page.selection.set
                              THEN calculateLaps(parsedData, page.selection.course)
                              ELSE @]
    /\ UNCHANGED <<pc, samples, base, result, dec, ubxVars, lapVars, postVars, store>>

\* Index.tsx lines 40..43: the 'Load sample' button, disabled while a load
\* is under way; the handler then awaits loadTracks and the fetch.
handleLoadSample ==
    /\ pc = "page"
    /\ ~page.isLoadingSample
    /\ page' = [page EXCEPT !.isLoadingSample = TRUE]
    /\ UNCHANGED <<pc, samples, base, result, dec, ubxVars, lapVars, postVars, store>>

\* Index.tsx lines 44..75: the handler resumes; okc is the first course of
\* the track named "Orlando Kart Center" in what loadTracks returned, if
\* there is one.
SampleLoaded ==
    /\ pc = "page"
    /\ page.isLoadingSample
    /\ \E okc \in OkcSelections \cup {NoPage.selection} :
          page' = [data |-> [set |-> TRUE, samples |-> SampleStream],
                   selection |-> IF okc.set THEN okc ELSE page.selection,
                   laps |-> IF okc.set THEN calculateLaps(SampleStream, okc.course)
                            ELSE page.laps,
                   isLoadingSample |-> FALSE]
    /\ UNCHANGED <<pc, samples, base, result, dec, ubxVars, lapVars, postVars, store>>

\* Index.tsx line 413: the 'New File' button
NewFile ==
    /\ pc = "page"
    /\ page' = [page EXCEPT !.data = NoPage.data]
    /\ UNCHANGED <<pc, samples, base, result, dec, ubxVars, lapVars, postVars, store>>

\* Index.tsx lines 240..253
handleSelectionChange ==
    /\ pc = "page"
    /\ \E newSelection \in Selections \cup {NoPage.selection} :
          page' = [page EXCEPT
                     !.selection = newSelection,
                     !.laps = IF newSelection.set /\ page.data.set
                              THEN calculateLaps(page.data.samples, newSelection.course)
                              ELSE <<>>]
    /\ UNCHANGED <<pc, samples, base, result, dec, ubxVars, lapVars, postVars, store>>

NextPage ==
    \/ handleDataLoaded \/ handleLoadSample \/ SampleLoaded
    \/ NewFile \/ handleSelectionChange

SpecPage == InitPage /\ [][NextPage]_vars

\* C28: whenever the page holds a sample stream and a selected course, its
\* laps state is calculateLaps of that stream and that course.
C28_LapsOfCurrent ==
    (pc = "page" /\ page.data.set /\ page.selection.set)
        => page.laps = calculateLaps(page.data.samples, page.selection.course)

(***************************************************************************)
(* Track storage.  The module keeps the parsed tracks.json in a cache      *)
(* (defaultTracksCache) and the user's tracks in localStorage; every       *)
(* operation starts with loadTracks, which merges the two.  The merged     *)
(* list holds new track objects and new course arrays, but the course      *)
(* objects of the defaults are the cache's own objects: the ref field of a *)
(* course says which cached object it is (NoRef: an object of its own).    *)
(* A course carries its name, its lines and its isUserDefined flag.        *)
(* tracks.json holds one track with one course; legacy storage is empty.   *)
(* updateCourse is given the four line fields, as the track editor does.   *)
(*   pc = "store": the module is loaded                                    *)
(***************************************************************************)
TrackNames == {"Orlando Kart Center", "Club"}

CourseNames == {"Full", "Short"}

\* The lines of a course: those of tracks.json and those a user enters.
DefaultGeometry == CHOOSE c \in Courses : c.sector3.set

Geometries == {TouchCourse}

NoRef == [track |-> 0, course |-> 0]

CourseOf(name, g, isUserDefined) ==
    [name |-> name, startFinishA |-> g.startFinishA, startFinishB |-> g.startFinishB,
     sector2 |-> g.sector2, sector3 |-> g.sector3,
     isUserDefined |-> isUserDefined, ref |-> NoRef]

\* trackStorage.ts lines 64..98: the tracks parsed from tracks.json
DefaultTracks ==
    <<[name |-> "Orlando Kart Center",
       courses |-> <<CourseOf("Full", DefaultGeometry, FALSE)>>,
       isUserDefined |-> FALSE]>>

\* TrackEditor.tsx lines 267..281 (buildCourse): the course of the form
FormCourses == {CourseOf(n, g, TRUE) : n \in CourseNames, g \in Geometries}

\* The value of the object, as JSON.stringify or a reader of the cache sees it.
Plain(tracks) ==
    [i \in 1..Len(tracks) |->
        [tracks[i] EXCEPT !.courses = [j \in 1..Len(@) |-> [@[j] EXCEPT !.ref = NoRef]]]]

\* The cached tracks as objects: course j of track i is the cache's object.
Cached(tracks) ==
    [i \in 1..Len(tracks) |->
        [tracks[i] EXCEPT
            !.courses = [j \in 1..Len(@) |-> [@[j] EXCEPT !.ref = [track |-> i, course |-> j]]]]]

\* Map.set(x.name, x) on a Map held in insertion order
MapSet(m, x) ==
    IF \E k \in 1..Len(m) : m[k].name = x.name
    THEN [k \in 1..Len(m) |-> IF m[k].name = x.name THEN x ELSE m[k]]
    ELSE Append(m, x)

RECURSIVE MapSetAll(_, _, _)
MapSetAll(m, xs, j) ==
    IF j > Len(xs) THEN m ELSE MapSetAll(MapSet(m, xs[j]), xs, j + 1)

UserCopies(courses) ==
    [j \in 1..Len(courses) |-> [courses[j] EXCEPT !.isUserDefined = TRUE, !.ref = NoRef]]

\* trackStorage.ts lines 194..214: one turn of the loop over userTracks
MergeUserTrack(merged, userTrack) ==
    IF \E k \in 1..Len(merged) : merged[k].name = userTrack.name
    THEN LET k == CHOOSE n \in 1..Len(merged) : merged[n].name = userTrack.name
         IN  [merged EXCEPT
                 ![k].courses = MapSetAll(MapSetAll(<<>>, @, 1),
                                          UserCopies(userTrack.courses), 1)]
    ELSE Append(merged, [name |-> userTrack.name,
                         courses |-> UserCopies(userTrack.courses),
                         isUserDefined |-> TRUE])

RECURSIVE MergeFrom(_, _, _)
MergeFrom(merged, userTracks, j) ==
    IF j > Len(userTracks) THEN merged
    ELSE MergeFrom(MergeUserTrack(merged, userTracks[j]), userTracks, j + 1)

\* trackStorage.ts lines 185..217
mergeTracks(defaults, userTracks) == MergeFrom(MapSetAll(<<>>, defaults, 1), userTracks, 1)

IsUserCourse(c) == c.isUserDefined

HasUserCourse(t) == t.isUserDefined \/ \E j \in 1..Len(t.courses) : t.courses[j].isUserDefined

WorthSaving(t) == Len(t.courses) > 0 \/ t.isUserDefined

\* trackStorage.ts lines 163..179: the value written to localStorage
saveUserTracks(tracks) ==
    LET kept == SelectSeq(tracks, HasUserCourse)
        mapped == [i \in 1..Len(kept) |->
                      [kept[i] EXCEPT !.courses = SelectSeq(@, IsUserCourse)]]
    IN  Plain(SelectSeq(mapped, WorthSaving))

\* trackStorage.ts lines 53..105 and 223..239: the cache and the merged list
\* after loadTracks, when tracks.json can (ok) or cannot be fetched
loadTracks(ok) ==
    LET cache == IF store.cache.set \/ ~ok THEN store.cache
                 ELSE [set |-> TRUE, tracks |-> DefaultTracks]
        defaults == IF cache.set THEN Cached(cache.tracks) ELSE <<>>
    IN  [cache |-> cache, tracks |-> mergeTracks(defaults, store.storage)]

HasTrack(tracks, trackName) == \E k \in 1..Len(tracks) : tracks[k].name = trackName

\* tracks.find(t => t.name === trackName), when there is one
FindTrack(tracks, trackName) ==
    CHOOSE k \in 1..Len(tracks) :
        /\ tracks[k].name = trackName
        /\ \A n \in 1..(k - 1) : tracks[n].name # trackName

HasCourse(track, courseName) == \E j \in 1..Len(track.courses) : track.courses[j].name = courseName

FindCourse(track, courseName) ==
    CHOOSE j \in 1..Len(track.courses) :
        /\ track.courses[j].name = courseName
        /\ \A n \in 1..(j - 1) : track.courses[n].name # courseName

\* Object.assign(course, updates, { isUserDefined: true })
Assigned(target, updates) ==
    [target EXCEPT !.startFinishA = updates.startFinishA,
                   !.startFinishB = updates.startFinishB,
                   !.sector2 = updates.sector2, !.sector3 = updates.sector3,
                   !.isUserDefined = TRUE]

\* Object.assign(existingCourse, course, { isUserDefined: true }): a course
\* built without sector lines has no sector properties to copy.
AssignedOwn(target, source) ==
    [target EXCEPT !.startFinishA = source.startFinishA,
                   !.startFinishB = source.startFinishB,
                   !.sector2 = IF source.sector2.set THEN source.sector2 ELSE @,
                   !.sector3 = IF source.sector3.set THEN source.sector3 ELSE @,
                   !.isUserDefined = TRUE]

\* The cache after an object of the merged list was assigned to.
Through(cache, target) ==
    IF target.ref = NoRef THEN cache
    ELSE [cache EXCEPT
             !.tracks[target.ref.track].courses[target.ref.course] =
                 [target EXCEPT !.ref = NoRef]]

\* The course arrays without the courses of that name.
KeepCourses(courses, courseName) == courses

\* trackStorage.ts line 344
RemoveCourse(courses, courseName) ==
    LET Other(c) == c.name # courseName
    IN  SelectSeq(courses, Other)

InitStore ==
    /\ pc = "store"
    /\ \E trackName \in TrackNames, courseName \in CourseNames :
          store = [NoStore EXCEPT !.watched = <<trackName, courseName>>]
    /\ page = NoPage
    /\ samples = <<>>
    /\ base = NoBase
    /\ result = "none"
    /\ dec = NoDec
    /\ IdleUbx
    /\ IdleLap
    /\ IdlePost

StoreFrame == UNCHANGED <<pc, samples, base, result, dec, ubxVars, lapVars, postVars, page>>

IsDefaultCourse(trackName, courseName) ==
    \E i \in 1..Len(DefaultTracks) :
        DefaultTracks[i].name = trackName /\ HasCourse(DefaultTracks[i], courseName)

\* trackStorage.ts lines 223..239, called by the page and the track editor
LoadTracks ==
    /\ pc = "store"
    /\ \E ok \in BOOLEAN :
       \E l \in {loadTracks(ok)} :
          store' = [store EXCEPT
                       !.cache = l.cache,
                       !.returned = [set |-> TRUE, tracks |-> Plain(l.tracks)]]
    /\ StoreFrame

\* trackStorage.ts lines 244..267; the track editor always gives a course
addTrack ==
    /\ pc = "store"
    /\ \E ok \in BOOLEAN, trackName \in TrackNames, newCourse \in FormCourses :
       \E l \in {loadTracks(ok)} :
          LET added == [newCourse EXCEPT !.isUserDefined = TRUE]
              tracks ==
                  IF HasTrack(l.tracks, trackName)
                  THEN LET k == FindTrack(l.tracks, trackName)
                       IN  IF HasCourse(l.tracks[k], newCourse.name) THEN l.tracks
                           ELSE [l.tracks EXCEPT ![k].courses = Append(@, added)]
                  ELSE Append(l.tracks, [name |-> trackName, courses |-> <<added>>,
                                         isUserDefined |-> TRUE])
              readded == store.watched = <<trackName, newCourse.name>>
          IN  store' = [store EXCEPT
                           !.cache = l.cache,
                           !.storage = saveUserTracks(tracks),
                           !.returned = NoStore.returned,
                           !.deleted = @ /\ ~readded,
                           !.gone = @ /\ ~readded]
    /\ StoreFrame

\* trackStorage.ts lines 272..296
addCourse ==
    /\ pc = "store"
    /\ \E ok \in BOOLEAN, trackName \in TrackNames, newCourse \in FormCourses :
       \E l \in {loadTracks(ok)} :
          LET with == IF HasTrack(l.tracks, trackName) THEN l.tracks
                      ELSE Append(l.tracks, [name |-> trackName, courses |-> <<>>,
                                             isUserDefined |-> TRUE])
              k == FindTrack(with, trackName)
              exists == HasCourse(with[k], newCourse.name)
              j == FindCourse(with[k], newCourse.name)
              tracks == IF exists
                        THEN [with EXCEPT ![k].courses[j] = AssignedOwn(@, newCourse)]
                        ELSE [with EXCEPT
                                 ![k].courses = Append(@, [newCourse EXCEPT !.isUserDefined = TRUE])]
              readded == store.watched = <<trackName, newCourse.name>>
          IN  store' = [store EXCEPT
                           !.cache = IF exists THEN Through(l.cache, tracks[k].courses[j])
                                     ELSE l.cache,
                           !.storage = saveUserTracks(tracks),
                           !.returned = NoStore.returned,
                           !.deleted = @ /\ ~readded,
                           !.gone = @ /\ ~readded]
    /\ StoreFrame

\* trackStorage.ts lines 301..312
updateTrackName ==
    /\ pc = "store"
    /\ \E ok \in BOOLEAN, oldName \in TrackNames, newName \in TrackNames :
       \E l \in {loadTracks(ok)} :
          LET found == HasTrack(l.tracks, oldName)
              k == FindTrack(l.tracks, oldName)
              tracks == IF found
                        THEN [l.tracks EXCEPT ![k].name = newName, ![k].isUserDefined = TRUE]
                        ELSE l.tracks
          IN  store' = [store EXCEPT
                           !.cache = l.cache,
                           !.storage = IF found THEN saveUserTracks(tracks) ELSE @,
                           !.returned = NoStore.returned,
                           !.gone = @ /\ ~(found /\ store.watched[1] = newName)]
    /\ StoreFrame

\* trackStorage.ts lines 317..334
updateCourse ==
    /\ pc = "store"
    /\ \E ok \in BOOLEAN, trackName \in TrackNames, courseName \in CourseNames,
          updates \in Geometries :
       \E l \in {loadTracks(ok)} :
          LET found == /\ HasTrack(l.tracks, trackName)
                       /\ HasCourse(l.tracks[FindTrack(l.tracks, trackName)], courseName)
              k == FindTrack(l.tracks, trackName)
              j == FindCourse(l.tracks[k], courseName)
              tracks == IF found
                        THEN [l.tracks EXCEPT ![k].courses[j] = Assigned(@, updates)]
                        ELSE l.tracks
          IN  store' = [store EXCEPT
                           !.cache = IF found THEN Through(l.cache, tracks[k].courses[j])
                                     ELSE l.cache,
                           !.storage = IF found THEN saveUserTracks(tracks) ELSE @,
                           !.returned = NoStore.returned]
    /\ StoreFrame

\* trackStorage.ts lines 339..349
deleteCourse ==
    /\ pc = "store"
    /\ \E ok \in BOOLEAN, trackName \in TrackNames, courseName \in CourseNames :
       \E l \in {loadTracks(ok)} :
          LET found == HasTrack(l.tracks, trackName)
              k == FindTrack(l.tracks, trackName)
              existed == found /\ HasCourse(l.tracks[k], courseName)
              tracks == IF found
                        THEN [l.tracks EXCEPT ![k].courses = RemoveCourse(@, courseName)]
                        ELSE l.tracks
              watching == existed /\ store.watched = <<trackName, courseName>>
          IN  store' = [store EXCEPT
                           !.cache = l.cache,
                           !.storage = IF found THEN saveUserTracks(tracks) ELSE @,
                           !.returned = NoStore.returned,
                           !.deleted = @ \/ watching,
                           !.gone = @ \/ (watching /\ ~IsDefaultCourse(trackName, courseName))]
    /\ StoreFrame

\* trackStorage.ts lines 354..369
deleteTrack ==
    /\ pc = "store"
    /\ \E ok \in BOOLEAN, trackName \in TrackNames :
       \E l \in {loadTracks(ok)} :
          LET found == HasTrack(l.tracks, trackName)
              k == FindTrack(l.tracks, trackName)
              NotUser(c) == ~c.isUserDefined
              Other(t) == t.name # trackName
              tracks == IF ~found THEN l.tracks
                        ELSE IF ~l.tracks[k].isUserDefined
                        THEN [l.tracks EXCEPT ![k].courses = SelectSeq(@, NotUser)]
                        ELSE SelectSeq(l.tracks, Other)
          IN  store' = [store EXCEPT
                           !.cache = l.cache,
                           !.storage = IF found THEN saveUserTracks(tracks) ELSE @,
                           !.returned = NoStore.returned]
    /\ StoreFrame

\* The page is loaded anew: the module's cache is empty again, localStorage
\* is what it was.
Reload ==
    /\ pc = "store"
    /\ store.cache.set
    /\ store' = [store EXCEPT !.cache = NoStore.cache, !.returned = NoStore.returned]
    /\ StoreFrame

NextStore ==
    \/ LoadTracks \/ addTrack \/ addCourse \/ updateTrackName
    \/ updateCourse \/ deleteCourse \/ deleteTrack \/ Reload

SpecStore == InitStore /\ [][NextStore]_vars

\* C29: the cached default tracks are those first parsed from tracks.json,
\* whatever operations have run: same names, same lines, isUserDefined false.
C29_CacheUntouched ==
    (pc = "store" /\ store.cache.set) => store.cache.tracks = DefaultTracks

ListsCourse(tracks, trackName, courseName) ==
    \E k \in 1..Len(tracks) : tracks[k].name = trackName /\ HasCourse(tracks[k], courseName)

Init == InitUbx \/ InitDec \/ InitLap \/ InitSpd \/ InitEvt \/ InitDisp \/ InitPage
            \/ InitStore

Next == NextUbx \/ NextDec \/ NextLap \/ NextSpd \/ NextEvt \/ NextDisp \/ NextPage
            \/ NextStore

Spec == Init /\ [][Next]_vars

=============================================================================
